---------------------------- MODULE Spec2Model ----------------------------
(***************************************************************************)
(* A model of create-stb, the CLI that scaffolds a Serverless TypeScript   *)
(* boilerplate (remote-fetch variant, src/unnamed/part_001).               *)
(*                                                                         *)
(* Text.  A JavaScript string is a sequence of tokens.  A token is either  *)
(* one of the characters the code looks at one by one (the space, the      *)
(* dot, the slash, the hyphen and the eight characters of the regular      *)
(* expression of sanitizePath, with the backtick written "BACKTICK" and    *)
(* the null byte written "NUL") or a run of plain characters such as "w"   *)
(* or "create-stb-temp".  A plain token holds no space, dot, slash or      *)
(* character of that regular expression, and does not begin with a hyphen. *)
(*                                                                         *)
(* Paths follow the POSIX flavour of Node's path module.                   *)
(***************************************************************************)
EXTENDS Integers, Sequences, FiniteSets, TLC

(***************************************************************************)
(* Bounds of the model.                                                    *)
(***************************************************************************)
MaxLen == 3

(***************************************************************************)
(* Strings                                                                 *)
(***************************************************************************)
Whitespace == {" "}
DangerousChars == {"BACKTICK", "$", "|", ";", "&", "<", ">", "NUL"}
PlainChars == {"a"}
Alphabet == Whitespace \cup DangerousChars \cup PlainChars \cup {"-", ".", "/"}

RECURSIVE StringsUpTo(_)
StringsUpTo(n) ==
  IF n = 0 THEN {<<>>}
  ELSE LET shorter == StringsUpTo(n - 1)
       IN  shorter \cup {Append(s, c) : s \in {t \in shorter : Len(t) = n - 1}, c \in Alphabet}

Range(s) == {s[i] : i \in 1..Len(s)}

StartsWith(s, c) == Len(s) > 0 /\ s[1] = c

EndsWith(s, c) == Len(s) > 0 /\ s[Len(s)] = c

RECURSIVE TrimStart(_)
TrimStart(s) ==
  IF Len(s) > 0 /\ s[1] \in Whitespace THEN TrimStart(Tail(s)) ELSE s

RECURSIVE TrimEnd(_)
TrimEnd(s) ==
  IF Len(s) > 0 /\ s[Len(s)] \in Whitespace
  THEN TrimEnd(SubSeq(s, 1, Len(s) - 1))
  ELSE s

\* String.prototype.trim
Trim(s) == TrimEnd(TrimStart(s))

(***************************************************************************)
(* Node's path module (posix)                                              *)
(***************************************************************************)
\* The pieces of s between slashes, empty pieces included.
RECURSIVE SplitSlash(_, _, _)
SplitSlash(s, i, cur) ==
  IF i > Len(s) THEN <<cur>>
  ELSE IF s[i] = "/" THEN <<cur>> \o SplitSlash(s, i + 1, <<>>)
  ELSE SplitSlash(s, i + 1, Append(cur, s[i]))

Segments(s) == SplitSlash(s, 1, <<>>)

RECURSIVE JoinSlash(_)
JoinSlash(segs) ==
  IF Len(segs) = 0 THEN <<>>
  ELSE IF Len(segs) = 1 THEN segs[1]
  ELSE segs[1] \o <<"/">> \o JoinSlash(Tail(segs))

\* normalizeString: drops empty and "." segments, lets ".." cancel the
\* segment before it, keeps a leading ".." only when allowAboveRoot.
RECURSIVE NormalizeSegments(_, _, _)
NormalizeSegments(segs, res, allowAboveRoot) ==
  IF Len(segs) = 0 THEN res
  ELSE LET seg == Head(segs)
           rest == Tail(segs)
       IN  IF seg = <<>> \/ seg = <<".">>
           THEN NormalizeSegments(rest, res, allowAboveRoot)
           ELSE IF seg = <<".", ".">>
           THEN IF Len(res) > 0 /\ res[Len(res)] # <<".", ".">>
                THEN NormalizeSegments(rest, SubSeq(res, 1, Len(res) - 1), allowAboveRoot)
                ELSE IF allowAboveRoot
                THEN NormalizeSegments(rest, Append(res, seg), allowAboveRoot)
                ELSE NormalizeSegments(rest, res, allowAboveRoot)
           ELSE NormalizeSegments(rest, Append(res, seg), allowAboveRoot)

normalizeString(p, allowAboveRoot) ==
  JoinSlash(NormalizeSegments(Segments(p), <<>>, allowAboveRoot))

isAbsolute(p) == StartsWith(p, "/")

\* path.normalize
normalize(p) ==
  IF Len(p) = 0 THEN <<".">>
  ELSE LET abs == isAbsolute(p)
           trailing == EndsWith(p, "/")
           body == normalizeString(p, ~abs)
       IN  IF Len(body) = 0
           THEN IF abs THEN <<"/">> ELSE IF trailing THEN <<".", "/">> ELSE <<".">>
           ELSE (IF abs THEN <<"/">> ELSE <<>>) \o body
                \o (IF trailing THEN <<"/">> ELSE <<>>)

\* path.resolve(...args) in working directory wd: the arguments are taken
\* from the right until the path is absolute, wd last; empty ones skipped.
RECURSIVE ResolveFrom(_, _, _)
ResolveFrom(wd, args, acc) ==
  IF isAbsolute(acc) THEN acc
  ELSE IF Len(args) = 0 THEN wd \o <<"/">> \o acc
  ELSE LET a == args[Len(args)]
           front == SubSeq(args, 1, Len(args) - 1)
       IN  IF Len(a) = 0 THEN ResolveFrom(wd, front, acc)
           ELSE ResolveFrom(wd, front, a \o <<"/">> \o acc)

resolve(wd, args) ==
  LET body == normalizeString(ResolveFrom(wd, args, <<>>), FALSE)
  IN  <<"/">> \o body

\* path.join(a, b)
join(a, b) ==
  LET parts == SelectSeq(<<a, b>>, LAMBDA x : Len(x) > 0)
  IN  IF Len(parts) = 0 THEN <<".">> ELSE normalize(JoinSlash(parts))

(***************************************************************************)
(* Errors.  An outcome is a record: ok tells whether the call returned,    *)
(* value what it returned, err the message of the Error thrown.            *)
(***************************************************************************)
NoValue == <<>>

Returned(v) == [ok |-> TRUE, value |-> v, err |-> <<>>]

Thrown(msg) == [ok |-> FALSE, value |-> NoValue, err |-> msg]

ErrEmptyPath == <<"Path must be a non-empty string">>
ErrDangerous == <<"Invalid path: contains dangerous characters">>

(***************************************************************************)
(* sanitizePath                                                            *)
(***************************************************************************)
\* sanitizePath with the hyphen looked for in the untrimmed input
sanitizePathHyphenUntrimmed(wd, inputPath) ==
  IF Len(Trim(inputPath)) = 0
  THEN Thrown(ErrEmptyPath)
  ELSE LET trimmed == Trim(inputPath)
       IN  IF StartsWith(inputPath, "-") \/ Range(trimmed) \cap DangerousChars # {}
           THEN Thrown(ErrDangerous)
           ELSE Returned(normalize(resolve(wd, <<trimmed>>)))

\* sanitizePath resolving the untrimmed input
sanitizePathResolvesInput(wd, inputPath) ==
  IF Len(Trim(inputPath)) = 0
  THEN Thrown(ErrEmptyPath)
  ELSE LET trimmed == Trim(inputPath)
       IN  IF StartsWith(trimmed, "-") \/ Range(trimmed) \cap DangerousChars # {}
           THEN Thrown(ErrDangerous)
           ELSE Returned(normalize(resolve(wd, <<inputPath>>)))

\* sanitizePath without the test for the characters of the shell
sanitizePathAnyCharacter(wd, inputPath) ==
  IF Len(Trim(inputPath)) = 0
  THEN Thrown(ErrEmptyPath)
  ELSE LET trimmed == Trim(inputPath)
       IN  IF StartsWith(trimmed, "-")
           THEN Thrown(ErrDangerous)
           ELSE Returned(normalize(resolve(wd, <<trimmed>>)))

sanitizePath(wd, inputPath) ==
  IF Len(Trim(inputPath)) = 0
  THEN Thrown(ErrEmptyPath)
  ELSE LET trimmed == Trim(inputPath)
       IN  IF StartsWith(trimmed, "-") \/ Range(trimmed) \cap DangerousChars # {}
           THEN Thrown(ErrDangerous)
           ELSE Returned(normalize(resolve(wd, <<trimmed>>)))

(***************************************************************************)
(* The filesystem: a function from the absolute normalized paths that      *)
(* exist to their nodes.  A node is a directory or a regular file; the     *)
(* content of a file is a sequence of lines, a line a sequence of tokens.  *)
(***************************************************************************)
Root == <<"/">>

DirNode == [kind |-> "dir", data |-> <<>>]

FileNode(d) == [kind |-> "file", data |-> d]

existsSync(f, p) == p \in DOMAIN f

IsDir(f, p) == existsSync(f, p) /\ f[p].kind = "dir"

IsFile(f, p) == existsSync(f, p) /\ f[p].kind = "file"

\* the place of the last slash of p
LastSlash(p) == CHOOSE i \in 1..Len(p) : p[i] = "/" /\ \A j \in (i + 1)..Len(p) : p[j] # "/"

\* path.dirname of an absolute normalized path
dirname(p) == IF LastSlash(p) = 1 THEN Root ELSE SubSeq(p, 1, LastSlash(p) - 1)

\* path.basename
basename(p) == SubSeq(p, LastSlash(p) + 1, Len(p))

IsUnder(q, p) ==
  /\ q # p
  /\ LET pre == IF p = Root THEN p ELSE p \o <<"/">>
     IN  Len(q) > Len(pre) /\ SubSeq(q, 1, Len(pre)) = pre

Children(f, p) == {q \in DOMAIN f : IsUnder(q, p) /\ dirname(q) = p}

Descendants(f, p) == {q \in DOMAIN f : IsUnder(q, p)}

\* p and the directories above it, the root excluded
RECURSIVE Ancestry(_)
Ancestry(p) == IF p = Root THEN {} ELSE {p} \cup Ancestry(dirname(p))

\* f with the nodes of g added or replaced
Overlay(f, g) ==
  [p \in DOMAIN f \cup DOMAIN g |-> IF p \in DOMAIN g THEN g[p] ELSE f[p]]

Without(f, ps) == [p \in DOMAIN f \ ps |-> f[p]]

\* An outcome of an operation on the filesystem: the filesystem it leaves
\* and the message of the error it threw, <<>> when it returned.
FsOk(f) == [fs |-> f, err |-> <<>>]

FsThrow(f, msg) == [fs |-> f, err |-> msg]

ErrIO == <<"EACCES: permission denied">>
ErrNotDir == <<"ENOTDIR: not a directory">>
ErrNoEnt == <<"ENOENT: no such file or directory">>

\* fs.mkdirSync(p, { recursive: true })
mkdirSync(f, p, fault) ==
  IF fault THEN FsThrow(f, ErrIO)
  ELSE IF \E a \in Ancestry(p) : IsFile(f, a) THEN FsThrow(f, ErrNotDir)
  ELSE FsOk(Overlay(f, [a \in Ancestry(p) \ DOMAIN f |-> DirNode]))

\* fs.readdirSync(p): the outcome holds the set of entries
readdirSync(f, p, fault) ==
  IF fault THEN Thrown(ErrIO)
  ELSE IF ~existsSync(f, p) THEN Thrown(ErrNoEnt)
  ELSE IF ~IsDir(f, p) THEN Thrown(ErrNotDir)
  ELSE Returned(Children(f, p))

(***************************************************************************)
(* createProjectDirectory                                                  *)
(***************************************************************************)
ErrNotEmpty(projectPath) ==
  <<"Directory \"">> \o projectPath \o <<"\" exists and is not empty.">>

\* createProjectDirectory without the test on the entries
createProjectDirectoryNoCheck(f, projectPath, fault) ==
  IF existsSync(f, projectPath)
  THEN LET entries == readdirSync(f, projectPath, fault)
       IN  IF ~entries.ok THEN FsThrow(f, entries.err) ELSE FsOk(f)
  ELSE mkdirSync(f, projectPath, fault)

createProjectDirectory(f, projectPath, fault) ==
  IF existsSync(f, projectPath)
  THEN LET entries == readdirSync(f, projectPath, fault)
       IN  IF ~entries.ok THEN FsThrow(f, entries.err)
           ELSE IF Cardinality(entries.value) = 0 THEN FsOk(f)
           ELSE FsThrow(f, ErrNotEmpty(projectPath))
  ELSE mkdirSync(f, projectPath, fault)

(***************************************************************************)
(* Injected I/O failures.  Where an operation makes several filesystem     *)
(* calls, budget tells how many of them succeed before one fails with      *)
(* ErrIO: NoFault for none, 0 for the first call.                          *)
(***************************************************************************)
NoFault == -1

Spend(budget) == IF budget > 0 THEN budget - 1 ELSE budget

Step(f, msg, budget) == [fs |-> f, err |-> msg, budget |-> budget]

(***************************************************************************)
(* copyDir                                                                 *)
(***************************************************************************)
ErrIsDir == <<"EISDIR: illegal operation on a directory">>

\* a rename in the place of the copy: the file leaves its directory
copyFileSyncMoving(f, from, to, fault) ==
  IF fault THEN FsThrow(f, ErrIO)
  ELSE IF ~existsSync(f, from) THEN FsThrow(f, ErrNoEnt)
  ELSE IF IsDir(f, from) \/ IsDir(f, to) THEN FsThrow(f, ErrIsDir)
  ELSE IF ~existsSync(f, dirname(to)) THEN FsThrow(f, ErrNoEnt)
  ELSE IF ~IsDir(f, dirname(to)) THEN FsThrow(f, ErrNotDir)
  ELSE FsOk(Without(Overlay(f, [q \in {to} |-> FileNode(f[from].data)]), {from}))

\* fs.copyFileSync(from, to)
copyFileSync(f, from, to, fault) ==
  IF fault THEN FsThrow(f, ErrIO)
  ELSE IF ~existsSync(f, from) THEN FsThrow(f, ErrNoEnt)
  ELSE IF IsDir(f, from) \/ IsDir(f, to) THEN FsThrow(f, ErrIsDir)
  ELSE IF ~existsSync(f, dirname(to)) THEN FsThrow(f, ErrNoEnt)
  ELSE IF ~IsDir(f, dirname(to)) THEN FsThrow(f, ErrNotDir)
  ELSE FsOk(Overlay(f, [q \in {to} |-> FileNode(f[from].data)]))

RECURSIVE copyDirRun(_, _, _, _), copyEntries(_, _, _, _)
\* the loop over the entries of a directory, in the order readdirSync
\* lists them (some fixed order)
copyEntries(f, todo, dest, budget) ==
  IF todo = {} THEN Step(f, <<>>, budget)
  ELSE LET srcPath == CHOOSE e \in todo : TRUE
           destPath == join(dest, basename(srcPath))
           one == IF IsDir(f, srcPath)
                  THEN copyDirRun(f, srcPath, destPath, budget)
                  ELSE LET c == copyFileSync(f, srcPath, destPath, budget = 0)
                       IN  Step(c.fs, c.err, Spend(budget))
       IN  IF one.err # <<>> THEN one
           ELSE copyEntries(one.fs, todo \ {srcPath}, dest, one.budget)

copyDirRun(f, src, dest, budget) ==
  LET made == IF existsSync(f, dest) THEN Step(f, <<>>, budget)
              ELSE LET m == mkdirSync(f, dest, budget = 0)
                   IN  Step(m.fs, m.err, Spend(budget))
  IN  IF made.err # <<>> THEN made
      ELSE LET entries == readdirSync(made.fs, src, made.budget = 0)
           IN  IF ~entries.ok THEN Step(made.fs, entries.err, made.budget)
               ELSE copyEntries(made.fs, entries.value, dest, Spend(made.budget))

copyDir(f, src, dest, budget) ==
  LET r == copyDirRun(f, src, dest, budget) IN [fs |-> r.fs, err |-> r.err]

(***************************************************************************)
(* cleanupTemp                                                             *)
(***************************************************************************)
\* What fs.rmSync(p, { recursive: true, force: true }) has removed when it
\* fails after n removals: children go before their directory.
RECURSIVE RemoveSome(_, _, _)
RemoveSome(f, p, n) ==
  LET left == {q \in DOMAIN f : q = p \/ IsUnder(q, p)}
  IN  IF n = 0 \/ left = {} THEN f
      ELSE LET leaf == CHOOSE q \in left : \A r \in left : ~IsUnder(r, q)
           IN  RemoveSome(Without(f, {leaf}), p, n - 1)

rmSync(f, p, budget) ==
  IF budget = NoFault
  THEN FsOk(Without(f, {q \in DOMAIN f : q = p \/ IsUnder(q, p)}))
  ELSE FsThrow(RemoveSome(f, p, budget), ErrIO)

\* cleanupTemp removing what is in the directory, not the directory
cleanupTempContentsOnly(f, tempDir, budget) ==
  IF existsSync(f, tempDir)
  THEN IF budget = NoFault THEN FsOk(Without(f, Descendants(f, tempDir)))
       ELSE FsThrow(RemoveSome(f, tempDir, budget), ErrIO)
  ELSE FsOk(f)

\* cleanupTemp without the existence test, the removal not forced
cleanupTempThrowsOnAbsent(f, tempDir, budget) ==
  IF existsSync(f, tempDir) THEN rmSync(f, tempDir, budget) ELSE FsThrow(f, ErrNoEnt)

cleanupTemp(f, tempDir, budget) ==
  IF existsSync(f, tempDir) THEN rmSync(f, tempDir, budget) ELSE FsOk(f)

(***************************************************************************)
(* updatePackageJson.  The text of a JSON object is the line <<"{">>, one  *)
(* line <<indent, key, value>> per member and the line <<"}">>; any other  *)
(* text but the lines <<"null">> and <<"[]">> is a syntax error.  A member  *)
(* value is a string.  A parsed value has a type ("object", "array",       *)
(* "null") and members, the <<key, value>> pairs of its own properties in  *)
(* insertion order.                                                        *)
(***************************************************************************)
ErrSyntax == <<"SyntaxError: Unexpected token in JSON">>

HasKey(obj, k) == \E i \in 1..Len(obj) : obj[i][1] = k

\* obj.k = v
SetProp(obj, k, v) ==
  IF HasKey(obj, k)
  THEN [i \in 1..Len(obj) |-> IF obj[i][1] = k THEN <<k, v>> ELSE obj[i]]
  ELSE Append(obj, <<k, v>>)

RECURSIVE ParseMembers(_, _)
ParseMembers(lines, obj) ==
  IF Len(lines) = 0 THEN obj
  ELSE ParseMembers(Tail(lines), SetProp(obj, lines[1][2], lines[1][3]))

JsonWellFormed(text) ==
  /\ Len(text) >= 2
  /\ text[1] = <<"{">>
  /\ text[Len(text)] = <<"}">>
  /\ \A i \in 2..(Len(text) - 1) : Len(text[i]) = 3

JsonValue(type, members) == [type |-> type, members |-> members]

JsonNull == << <<"null">> >>

JsonEmptyArray == << <<"[]">> >>

JSONparse(text) ==
  IF text = JsonNull THEN Returned(JsonValue("null", <<>>))
  ELSE IF text = JsonEmptyArray THEN Returned(JsonValue("array", <<>>))
  ELSE IF JsonWellFormed(text)
  THEN Returned(JsonValue("object", ParseMembers(SubSeq(text, 2, Len(text) - 1), <<>>)))
  ELSE Thrown(ErrSyntax)

\* JSON.stringify(value, null, 2): the properties of an array that are not
\* elements are left out
JSONstringify(v) ==
  CASE v.type = "null" -> JsonNull
    [] v.type = "array" -> JsonEmptyArray
    [] OTHER ->
         <<<<"{">>>>
         \o [i \in 1..Len(v.members) |-> <<"  ", v.members[i][1], v.members[i][2]>>]
         \o <<<<"}">>>>

ErrType == <<"TypeError: Cannot set properties of null">>

\* an assignment that makes a new object of the one property
AssignFresh(v, k, x) ==
  IF v.type = "null" THEN Thrown(ErrType)
  ELSE Returned(JsonValue(v.type, <<<<k, x>>>>))

\* v.k = x
Assign(v, k, x) ==
  IF v.type = "null" THEN Thrown(ErrType)
  ELSE Returned(JsonValue(v.type, SetProp(v.members, k, x)))

readFileSync(f, p, fault) ==
  IF fault THEN Thrown(ErrIO)
  ELSE IF ~existsSync(f, p) THEN Thrown(ErrNoEnt)
  ELSE IF IsDir(f, p) THEN Thrown(ErrIsDir)
  ELSE Returned(f[p].data)

writeFileSync(f, p, data, fault) ==
  IF fault THEN FsThrow(f, ErrIO)
  ELSE IF IsDir(f, p) THEN FsThrow(f, ErrIsDir)
  ELSE IF ~IsDir(f, dirname(p)) THEN FsThrow(f, ErrNoEnt)
  ELSE FsOk(Overlay(f, [q \in {p} |-> FileNode(data)]))

\* `${projectName} app description`
Description(projectName) == projectName \o <<" app description">>

\* updatePackageJson with the parse in a try block: a malformed file is
\* left as it is and the call returns
updatePackageJsonIgnoresParseError(f, projectPath, projectName, budget) ==
  LET file == join(projectPath, <<"package", ".", "json">>)
  IN  IF ~existsSync(f, file) THEN FsOk(f)
      ELSE LET text == readFileSync(f, file, budget = 0)
           IN  IF ~text.ok THEN FsThrow(f, text.err)
               ELSE LET pkg == JSONparse(text.value)
                    IN  IF ~pkg.ok THEN FsOk(f)
                        ELSE LET named == Assign(pkg.value, "name", projectName)
                             IN  IF ~named.ok THEN FsThrow(f, named.err)
                                 ELSE writeFileSync(f, file,
                                        JSONstringify(
                                          Assign(named.value, "description",
                                                 Description(projectName)).value),
                                        budget = 1)

\* updatePackageJson without the existence test: the read fails
updatePackageJsonNoExistsCheck(f, projectPath, projectName, budget) ==
  LET file == join(projectPath, <<"package", ".", "json">>)
      text == readFileSync(f, file, budget = 0)
  IN  IF ~text.ok THEN FsThrow(f, text.err)
      ELSE LET pkg == JSONparse(text.value)
           IN  IF ~pkg.ok THEN FsThrow(f, pkg.err)
               ELSE LET named == Assign(pkg.value, "name", projectName)
                    IN  IF ~named.ok THEN FsThrow(f, named.err)
                        ELSE writeFileSync(f, file,
                               JSONstringify(
                                 Assign(named.value, "description",
                                        Description(projectName)).value),
                               budget = 1)

updatePackageJson(f, projectPath, projectName, budget) ==
  LET file == join(projectPath, <<"package", ".", "json">>)
  IN  IF ~existsSync(f, file) THEN FsOk(f)
      ELSE LET text == readFileSync(f, file, budget = 0)
           IN  IF ~text.ok THEN FsThrow(f, text.err)
               ELSE LET pkg == JSONparse(text.value)
                    IN  IF ~pkg.ok THEN FsThrow(f, pkg.err)
                        ELSE LET named == Assign(pkg.value, "name", projectName)
                             IN  IF ~named.ok THEN FsThrow(f, named.err)
                                 ELSE writeFileSync(f, file,
                                        JSONstringify(
                                          Assign(named.value, "description",
                                                 Description(projectName)).value),
                                        budget = 1)

(***************************************************************************)
(* updateServerlessYml.  The content read is the lines joined by "LF".     *)
(***************************************************************************)
RECURSIVE JoinLines(_)
JoinLines(lines) ==
  IF Len(lines) = 0 THEN <<>>
  ELSE IF Len(lines) = 1 THEN lines[1]
  ELSE lines[1] \o <<"LF">> \o JoinLines(Tail(lines))

RECURSIVE SplitLines(_, _, _)
SplitLines(s, i, cur) ==
  IF i > Len(s) THEN <<cur>>
  ELSE IF s[i] = "LF" THEN <<cur>> \o SplitLines(s, i + 1, <<>>)
  ELSE SplitLines(s, i + 1, Append(cur, s[i]))

\* The places where /^service:.*$/m matches: "service:" at a line start.
MatchStarts(s) ==
  {i \in 1..Len(s) : s[i] = "service:" /\ (i = 1 \/ s[i - 1] = "LF")}

Min(S) == CHOOSE x \in S : \A y \in S : x <= y

\* the end of the line that begins at i
RECURSIVE LineEnd(_, _)
LineEnd(s, i) ==
  IF i < Len(s) /\ s[i + 1] # "LF" THEN LineEnd(s, i + 1) ELSE i

\* The replacement patterns of String.prototype.replace: $$ is a dollar
\* sign, $& the match, $` the text before it, $' the text after it.
RECURSIVE ExpandReplacement(_, _, _, _)
ExpandReplacement(r, matched, before, after) ==
  IF Len(r) = 0 THEN <<>>
  ELSE IF r[1] = "$" /\ Len(r) >= 2 /\ r[2] \in {"$", "&", "BACKTICK", "'"}
  THEN (CASE r[2] = "$" -> <<"$">>
          [] r[2] = "&" -> matched
          [] r[2] = "BACKTICK" -> before
          [] OTHER -> after)
       \o ExpandReplacement(SubSeq(r, 3, Len(r)), matched, before, after)
  ELSE <<r[1]>> \o ExpandReplacement(Tail(r), matched, before, after)

\* content.replace(/^service:.*$/m, replacement)
ReplaceService(s, replacement) ==
  IF MatchStarts(s) = {} THEN s
  ELSE LET from == Min(MatchStarts(s))
           to == LineEnd(s, from)
           before == SubSeq(s, 1, from - 1)
           after == SubSeq(s, to + 1, Len(s))
       IN  before
           \o ExpandReplacement(replacement, SubSeq(s, from, to), before, after)
           \o after

updateServerlessYml(f, projectPath, projectName, budget) ==
  LET serverlessPath == join(projectPath, <<"serverless", ".", "yml">>)
  IN  IF ~existsSync(f, serverlessPath) THEN FsOk(f)
      ELSE LET content == readFileSync(f, serverlessPath, budget = 0)
           IN  IF ~content.ok THEN FsThrow(f, content.err)
               ELSE writeFileSync(f, serverlessPath,
                      SplitLines(ReplaceService(JoinLines(content.value),
                                                <<"service:", " ">> \o projectName),
                                 1, <<>>),
                      budget = 1)

(***************************************************************************)
(* Subprocesses.  A started subprocess is recorded with its executable or  *)
(* shell command line, its argument vector, its working directory (<<>>    *)
(* when inherited), its stdio option and vetted, the paths sanitizePath    *)
(* had returned in the run by the time it was started.                     *)
(***************************************************************************)
Proc(file, args, dir, shell, stdio, vetted) ==
  [file |-> file, args |-> args, cwd |-> dir, shell |-> shell, stdio |-> stdio,
   vetted |-> vetted]

repoUrl ==
  <<"https:", "/", "/", "github", ".", "com", "/", "SamNewhouse", "/",
    "create-stb", ".", "git">>

GitVersionArgs == <<<<"-", "-", "version">>>>

GitCloneArgs(dest) ==
  << <<"clone">>, <<"-", "-", "depth">>, <<"1">>, <<"-", "-", "filter=blob:none">>,
     <<"-", "-", "sparse">>, repoUrl, dest >>

GitSparseArgs == << <<"sparse-checkout">>, <<"set">>, <<"serverless">> >>

ErrGitMissing == <<"Git is not installed. Please install git and try again.">>
ErrCommandFailed == <<"Command failed">>

(***************************************************************************)
(* What the remote repository holds under serverless/: a function from     *)
(* relative paths to nodes, or nothing at all.                             *)
(***************************************************************************)
PackageJson == <<"package", ".", "json">>
ServerlessYml == <<"serverless", ".", "yml">>

GoodPackage ==
  << <<"{">>, <<"  ", "name", <<"starter">>>>, <<"    ", "version", <<"1">>>>, <<"}">> >>

BadPackage == << <<"{">>, <<"name">> >>

GoodYml ==
  << <<"service:", " ", "starter">>, <<"provider:">>, <<"  ", "name:", " ", "aws">>, <<>> >>

TemplateFull ==
  (PackageJson :> FileNode(GoodPackage)) @@ (ServerlessYml :> FileNode(GoodYml))
  @@ (<<".", "env">> :> FileNode(<< <<"STAGE=dev">> >>))
  @@ (<<"src">> :> DirNode)
  @@ (<<"src", "/", "get", ".", "ts">> :> FileNode(<< <<"export">> >>))

TemplateBadPackage ==
  (PackageJson :> FileNode(BadPackage)) @@ (ServerlessYml :> FileNode(GoodYml))

TemplateNoPackage == (ServerlessYml :> FileNode(GoodYml))

TemplateNoYml == (PackageJson :> FileNode(GoodPackage))

Templates ==
  { [present |-> TRUE, tree |-> TemplateFull],
    [present |-> TRUE, tree |-> TemplateBadPackage],
    [present |-> TRUE, tree |-> TemplateNoPackage],
    [present |-> TRUE, tree |-> TemplateNoYml],
    [present |-> FALSE, tree |-> TemplateNoYml] }

\* the nodes of tree placed under base, base itself a directory
Placed(tree, base) ==
  LET at(r) == join(base, r)
  IN  [p \in {base} \cup {at(r) : r \in DOMAIN tree} |->
         IF p = base THEN DirNode
         ELSE tree[CHOOSE r \in DOMAIN tree : at(r) = p]]

\* What `git clone ... dest` leaves: "ok", "partial" and "hang" leave dest
\* with its .git directory and the files of the repository's top level,
\* "partial" and "failed" make the command fail, "hang" is a git that never
\* exits (a server that stops answering).  git refuses a non-empty dest.
GitCloneRefused(f, dest) == IsFile(f, dest) \/ Children(f, dest) # {}

GitCloneFs(f, dest, result) ==
  IF result = "failed" \/ GitCloneRefused(f, dest) \/ ~mkdirSync(f, dest, FALSE).err = <<>>
  THEN f
  ELSE Overlay(mkdirSync(f, dest, FALSE).fs,
               (join(dest, <<".", "git">>) :> DirNode)
               @@ (join(dest, <<"README", ".", "md">>) :> FileNode(<< <<"create-stb">> >>)))

GitCloneOk(f, dest, result) == result = "ok" /\ GitCloneFs(f, dest, result) # f

GitCloneHangs(f, dest, result) == result = "hang" /\ GitCloneFs(f, dest, result) # f

\* in place of the error of a call that never returns: execFileSync is
\* given no timeout option, so it waits as long as the child runs
Blocked == <<"(never returns)">>

\* What `git sparse-checkout set serverless` leaves in the clone.
GitSparseFs(f, clone, ok, tmpl) ==
  IF ok /\ tmpl.present
  THEN Overlay(f, Placed(tmpl.tree, join(clone, <<"serverless">>)))
  ELSE f

(***************************************************************************)
(* cloneBoilerplate.  The outcome holds the filesystem left, the error     *)
(* thrown or the path returned, the subprocesses started and the paths     *)
(* sanitizePath returned.                                                  *)
(***************************************************************************)
CloneOutcome(f, err, value, procs, vetted) ==
  [fs |-> f, err |-> err, value |-> value, procs |-> procs, vetted |-> vetted]

\* cloneBoilerplate as in src/bin/create-stb.ts, lines 161-177: the paths
\* go to git as they are, sanitizePath is not called
cloneBoilerplateUnsanitized(f, wd, tempDir, cloneResult, sparseOk, tmpl) ==
  LET dest == join(tempDir, <<"create-stb-temp">>)
      clone == Proc(<<"git">>, GitCloneArgs(dest), <<>>, FALSE, "ignore", {})
      f1 == GitCloneFs(f, dest, cloneResult)
      sparse == Proc(<<"git">>, GitSparseArgs, dest, FALSE, "ignore", {})
      f2 == GitSparseFs(f1, dest, sparseOk, tmpl)
  IN  IF GitCloneHangs(f, dest, cloneResult)
      THEN CloneOutcome(f1, Blocked, NoValue, <<clone>>, {})
      ELSE IF ~GitCloneOk(f, dest, cloneResult)
      THEN CloneOutcome(f1, ErrCommandFailed, NoValue, <<clone>>, {})
      ELSE IF ~sparseOk
      THEN CloneOutcome(f2, ErrCommandFailed, NoValue, <<clone, sparse>>, {})
      ELSE CloneOutcome(f2, <<>>, join(dest, <<"serverless">>), <<clone, sparse>>, {})

cloneBoilerplate(f, wd, tempDir, cloneResult, sparseOk, tmpl) ==
  LET safeTempDir == sanitizePath(wd, tempDir)
  IN  IF ~safeTempDir.ok THEN CloneOutcome(f, safeTempDir.err, NoValue, <<>>, {})
      ELSE
      LET clonePath == join(safeTempDir.value, <<"create-stb-temp">>)
          safeClonePath == sanitizePath(wd, clonePath)
          vetted1 == {safeTempDir.value}
      IN  IF ~safeClonePath.ok
          THEN CloneOutcome(f, safeClonePath.err, NoValue, <<>>, vetted1)
          ELSE
          LET dest == safeClonePath.value
              vetted2 == vetted1 \cup {dest}
              clone == Proc(<<"git">>, GitCloneArgs(dest), <<>>, FALSE, "ignore", vetted2)
              f1 == GitCloneFs(f, dest, cloneResult)
              sparse == Proc(<<"git">>, GitSparseArgs, dest, FALSE, "ignore", vetted2)
              f2 == GitSparseFs(f1, dest, sparseOk, tmpl)
          IN  IF GitCloneHangs(f, dest, cloneResult)
              THEN CloneOutcome(f1, Blocked, NoValue, <<clone>>, vetted2)
              ELSE IF ~GitCloneOk(f, dest, cloneResult)
              THEN CloneOutcome(f1, ErrCommandFailed, NoValue, <<clone>>, vetted2)
              ELSE IF ~sparseOk
              THEN CloneOutcome(f2, ErrCommandFailed, NoValue, <<clone, sparse>>, vetted2)
              ELSE CloneOutcome(f2, <<>>, join(dest, <<"serverless">>),
                                <<clone, sparse>>, vetted2)

(***************************************************************************)
(* State                                                                   *)
(***************************************************************************)
VARIABLES
  cwd,            \* process.cwd()
  argvName,       \* process.argv[2], <<>> when missing
  tmpdir,         \* os.tmpdir()
  now,            \* Date.now(), as text
  nodeMajor,      \* the major number of process.version
  fs,             \* the filesystem
  pc,             \* where main is
  projectPath,    \* main's projectPath, <<>> before it is set
  tempDir,        \* main's tempDir, <<>> before it is set
  boilerplateSrc, \* main's boilerplateSrc
  caught,         \* the error caught by main's catch block
  rejection,      \* the error main's promise is rejected with
  exitCode,       \* the exit status of the process, -1 while it runs
  stdout,         \* what was printed by console.log
  stderr,         \* what was printed by console.error
  trace,          \* history: the steps started, in order
  completed,      \* history: the steps that returned, in order
  procs,          \* history: the subprocesses started, in order
  vetted,         \* history: the paths sanitizePath has returned
  wsCreated,      \* history: something was created at tempDir
  rmFailed,       \* history: the places ("cleanup", "recover") where a removal failed
  sanIn,          \* the argument of a call of sanitizePath
  sanOut,         \* the outcome of that call, or Pending
  callPath,       \* the path argument of a call of a directory function
  callFault,      \* the failure injected into that call
  callPre,        \* the filesystem before that call
  callOut,        \* the error message of that call, <<>> when it returned
  callFn,         \* the function called last, "none" before any call
  callArgs,       \* the other arguments of that call
  callCount,      \* the number of calls made
  fetched,        \* history: the tree the sparse checkout placed, <<>> before it
  sanAgain,       \* the outcome of sanitizePath on the path it returned, or Pending
  runs,           \* the runs of the CLI started on one host, by number
  seed            \* a call of a seeding helper

env == <<cwd, argvName, tmpdir, now, nodeMajor>>
locals == <<projectPath, tempDir, boilerplateSrc>>
output == <<exitCode, stdout, stderr>>
history == <<trace, completed, procs, vetted, wsCreated, rmFailed, fetched>>
sanVars == <<sanIn, sanOut, sanAgain>>
callVars == <<callPath, callFault, callPre, callOut, callFn, callArgs, callCount>>
otherVars == <<runs, seed>>

vars ==
  <<env, fs, pc, locals, caught, rejection, output, history, sanVars, callVars, otherVars>>

Pending == [ok |-> FALSE, value |-> NoValue, err |-> <<"pending">>]

NoError == [msg |-> <<>>, from |-> "none"]

Error(msg, step) == [msg |-> msg, from |-> step]

MinNodeMajor == 20

(***************************************************************************)
(* main: the steps in the order of the try block                           *)
(***************************************************************************)
\* the order with the clone before the project directory
OrderCloneFirst ==
  <<"checkNode", "checkGit", "clone", "createDir", "copy", "cleanup",
    "updatePkg", "updateYml", "install", "report">>

\* the order with the copy before the project directory
OrderCopyFirst ==
  <<"checkNode", "checkGit", "clone", "copy", "createDir", "cleanup",
    "updatePkg", "updateYml", "install", "report">>

\* lines 179-217
Order ==
  <<"checkNode", "checkGit", "createDir", "clone", "copy", "cleanup",
    "updatePkg", "updateYml", "install", "report">>

IndexOf(step) == CHOOSE i \in 1..Len(Order) : Order[i] = step

StepAfter(step) ==
  IF IndexOf(step) = Len(Order) THEN "resolved" ELSE Order[IndexOf(step) + 1]

\* the step at pc returned
Returns(step) ==
  /\ pc = step
  /\ pc' = StepAfter(step)
  /\ trace' = Append(trace, step)
  /\ completed' = Append(completed, step)
  /\ UNCHANGED <<caught, rejection>>

\* a step that threw with the error dropped: the next step runs
ThrowsAndGoesOn(step, msg) ==
  /\ pc = step
  /\ pc' = StepAfter(step)
  /\ trace' = Append(trace, step)
  /\ caught' = Error(msg, step)
  /\ UNCHANGED <<completed, rejection>>

\* the step at pc threw: control goes to the catch block
Throws(step, msg) ==
  /\ pc = step
  /\ pc' = "catch"
  /\ trace' = Append(trace, step)
  /\ caught' = Error(msg, step)
  /\ UNCHANGED <<completed, rejection>>

\* the step at pc waits for a child process that never exits
Blocks(step) ==
  /\ pc = step
  /\ pc' = "blocked"
  /\ trace' = Append(trace, step)
  /\ UNCHANGED <<caught, completed, rejection>>

Outcome(step, err) ==
  IF err = <<>> THEN Returns(step)
  ELSE IF err = Blocked THEN Blocks(step)
  ELSE Throws(step, err)

ErrUsage == <<"Please provide a project name.">>

ErrNodeRequired(minMajor) == <<"Node.js v", ToString(minMajor), "+ required">>

\* an argument left out of a call
Undefined == -1

\* the largest major version number told apart
MaxMajor == 99

\* process.version of a runtime with the major version number major
ProcessVersion(major) == <<"v", ToString(major), ".", "11", ".", "0">>

\* version.replace("v", ""): the first "v" is taken out
ReplaceV(version) ==
  LET at == {i \in 1..Len(version) : version[i] = "v"}
  IN  IF at = {} THEN version
      ELSE LET first == CHOOSE i \in at : \A j \in at : i <= j
           IN  SubSeq(version, 1, first - 1) \o SubSeq(version, first + 1, Len(version))

\* const [major] = text.split("."): the text before the first "."
FirstOfSplit(text) ==
  LET at == {i \in 1..Len(text) : text[i] = "."}
  IN  IF at = {} THEN text
      ELSE SubSeq(text, 1, (CHOOSE i \in at : \A j \in at : i <= j) - 1)

\* Number(text) of the decimal text of a number up to MaxMajor
Number(text) == CHOOSE n \in 0..MaxMajor : <<ToString(n)>> = text

\* checkNodeVersion refusing the minimum version itself
checkNodeVersionInclusive(version, arg) ==
  LET minMajor == IF arg = Undefined THEN MinNodeMajor ELSE arg
      major == FirstOfSplit(ReplaceV(version))
  IN  IF Number(major) <= minMajor THEN ErrNodeRequired(minMajor) ELSE <<>>

\* checkNodeVersion(minMajor = 20)
checkNodeVersion(version, arg) ==
  LET minMajor == IF arg = Undefined THEN MinNodeMajor ELSE arg
      major == FirstOfSplit(ReplaceV(version))
  IN  IF Number(major) < minMajor THEN ErrNodeRequired(minMajor) ELSE <<>>

\* How a child process can end: it exits with status 0, it cannot be
\* started (no such executable), it exits with another status, it is
\* killed by a signal.
ExecResults == {"ok", "ENOENT", "status", "signal"}

\* the error execFileSync throws, <<>> when it returns
execFileSync(file, result) ==
  CASE result = "ok" -> <<>>
    [] result = "ENOENT" -> <<"spawnSync ">> \o file \o <<" ENOENT">>
    [] OTHER -> <<"Command failed: ">> \o file

\* checkGitInstalled without the try block: the error of the invocation
checkGitInstalledRethrows(result) == execFileSync(<<"git">>, result)

\* try { execFileSync("git", ["--version"], ...) } catch { throw ... }
checkGitInstalled(result) ==
  IF execFileSync(<<"git">>, result) = <<>> THEN <<>> ELSE ErrGitMissing

Banner(name) ==
  <<"Installation complete!", "Next steps:", "cd ">> \o name \o <<"npm run offline">>

MainIdle ==
  /\ argvName = <<>> /\ tmpdir = <<>> /\ now = "" /\ nodeMajor = 0
  /\ pc = "idle"
  /\ projectPath = <<>> /\ tempDir = <<>> /\ boilerplateSrc = <<>>
  /\ caught = NoError /\ rejection = NoError
  /\ exitCode = -1 /\ stdout = <<>> /\ stderr = <<>>
  /\ trace = <<>> /\ completed = <<>> /\ procs = <<>> /\ vetted = {}
  /\ wsCreated = FALSE /\ rmFailed = {} /\ fetched = <<>>

SanIdle == sanIn = <<>> /\ sanOut = Pending /\ sanAgain = Pending

\* the arguments a call can have besides its path
NoArgs ==
  [dest |-> <<>>, projectName |-> <<>>, budget |-> NoFault, minMajor |-> Undefined,
   exec |-> "none"]

UnitIdle == callFn = "none" /\ callArgs = NoArgs /\ callCount = 0

CallIdle ==
  /\ callPath = <<>> /\ callFault = FALSE /\ callPre = <<>> /\ callOut = <<>>
  /\ UnitIdle

OtherIdle == runs = <<>> /\ seed = <<>>

(***************************************************************************)
(* The run of the CLI.  The working directory and the temporary directory  *)
(* of the host are absolute normalized paths, neither inside the other.    *)
(***************************************************************************)
MainCwd == <<"/", "w">>

Names == {<<>>, <<"demo">>, <<"a", "$", "&">>, <<"x", "/", "y">>}

TmpDirs == {<<"/", "t">>, <<"/", "t", "&">>}

NodeMajors == {18, 20}

PreStates == {"absent", "empty", "nonempty", "file"}

BaseFs(dirs) == [p \in {Root} \cup UNION {Ancestry(d) : d \in dirs} |-> DirNode]

\* the filesystem before the run: pre tells what is at the project path pp
InitFs(dirs, pp, pre) ==
  CASE pre = "absent" -> BaseFs(dirs)
    [] pre = "empty" -> BaseFs(dirs \cup {pp})
    [] pre = "nonempty" ->
         Overlay(BaseFs(dirs \cup {pp}),
                 (join(pp, <<"old", ".", "txt">>) :> FileNode(<< <<"old">> >>)))
    [] OTHER -> Overlay(BaseFs(dirs \cup {dirname(pp)}), (pp :> FileNode(<<>>)))

Init ==
  /\ cwd = MainCwd
  /\ argvName \in Names
  /\ tmpdir \in TmpDirs
  /\ now = "1700000000000"
  /\ nodeMajor \in NodeMajors
  /\ \E pre \in (IF argvName = <<>> THEN {"absent"} ELSE PreStates) :
       fs = InitFs({cwd, tmpdir}, resolve(cwd, <<cwd, argvName>>), pre)
  /\ pc = "start"
  /\ projectPath = <<>> /\ tempDir = <<>> /\ boilerplateSrc = <<>>
  /\ caught = NoError /\ rejection = NoError
  /\ exitCode = -1 /\ stdout = <<>> /\ stderr = <<>>
  /\ trace = <<>> /\ completed = <<>> /\ procs = <<>> /\ vetted = {}
  /\ wsCreated = FALSE /\ rmFailed = {} /\ fetched = <<>>
  /\ SanIdle /\ CallIdle /\ OtherIdle

\* main without the argument check
StartWithoutNameCheck ==
  /\ pc = "start"
  /\ projectPath' = resolve(cwd, <<cwd, argvName>>)
  /\ tempDir' = join(tmpdir, <<"create-stb-", now>>)
  /\ pc' = Order[1]
  /\ UNCHANGED <<boilerplateSrc, output>>
  /\ UNCHANGED <<env, fs, caught, rejection, history, sanVars, callVars, otherVars>>

\* lines 171-177: the argument check and the two paths
Start ==
  /\ pc = "start"
  /\ IF argvName = <<>>
     THEN /\ stderr' = Append(stderr, ErrUsage)
          /\ exitCode' = 1
          /\ pc' = "exited"
          /\ UNCHANGED <<locals, stdout>>
     ELSE /\ projectPath' = resolve(cwd, <<cwd, argvName>>)
          /\ tempDir' = join(tmpdir, <<"create-stb-", now>>)
          /\ pc' = Order[1]
          /\ UNCHANGED <<boilerplateSrc, output>>
  /\ UNCHANGED <<env, fs, caught, rejection, history, sanVars, callVars, otherVars>>

CheckNode ==
  /\ pc = "checkNode"
  /\ Outcome("checkNode", checkNodeVersion(ProcessVersion(nodeMajor), Undefined))
  /\ UNCHANGED <<env, fs, locals, output, procs, vetted, wsCreated, fetched, rmFailed, sanVars, callVars, otherVars>>

CheckGit ==
  /\ pc = "checkGit"
  /\ \E result \in ExecResults : Outcome("checkGit", checkGitInstalled(result))
  /\ procs' = Append(procs, Proc(<<"git">>, GitVersionArgs, <<>>, FALSE, "ignore", vetted))
  /\ UNCHANGED <<env, fs, locals, output, vetted, wsCreated, fetched, rmFailed, sanVars, callVars, otherVars>>

CreateDir ==
  /\ pc = "createDir"
  /\ \E fault \in BOOLEAN :
       LET r == createProjectDirectory(fs, projectPath, fault)
       IN  fs' = r.fs /\ Outcome("createDir", r.err)
  /\ UNCHANGED <<env, locals, output, procs, vetted, wsCreated, fetched, rmFailed, sanVars, callVars, otherVars>>

CloneResults == {"ok", "partial", "failed", "hang"}

Clone ==
  /\ pc = "clone"
  /\ \E cloneResult \in CloneResults, sparseOk \in BOOLEAN, tmpl \in Templates :
       LET r == cloneBoilerplate(fs, cwd, tempDir, cloneResult, sparseOk, tmpl)
       IN  /\ fs' = r.fs
           /\ procs' = procs \o r.procs
           /\ vetted' = vetted \cup r.vetted
           /\ boilerplateSrc' = r.value
           /\ wsCreated' = (wsCreated \/ existsSync(r.fs, tempDir))
           /\ fetched' = IF r.err = <<>> /\ tmpl.present THEN tmpl.tree ELSE fetched
           /\ Outcome("clone", r.err)
  /\ UNCHANGED <<env, projectPath, tempDir, output, rmFailed, sanVars, callVars, otherVars>>

Copy ==
  /\ pc = "copy"
  /\ \E budget \in {NoFault} \cup 0..(Cardinality(Descendants(fs, boilerplateSrc)) + 1) :
       LET r == copyDir(fs, boilerplateSrc, projectPath, budget)
       IN  fs' = r.fs /\ Outcome("copy", r.err)
  /\ UNCHANGED <<env, locals, output, procs, vetted, wsCreated, fetched, rmFailed, sanVars, callVars, otherVars>>

Cleanup ==
  /\ pc = "cleanup"
  /\ \E budget \in {NoFault} \cup 0..Cardinality(Descendants(fs, tempDir)) :
       LET r == cleanupTemp(fs, tempDir, budget)
       IN  /\ fs' = r.fs
           /\ rmFailed' = IF r.err = <<>> THEN rmFailed ELSE rmFailed \cup {"cleanup"}
           /\ Outcome("cleanup", r.err)
  /\ UNCHANGED <<env, locals, output, procs, vetted, wsCreated, fetched, sanVars, callVars, otherVars>>

UpdatePkg ==
  /\ pc = "updatePkg"
  /\ \E budget \in {NoFault, 0, 1} :
       LET r == updatePackageJson(fs, projectPath, argvName, budget)
       IN  fs' = r.fs /\ Outcome("updatePkg", r.err)
  /\ UNCHANGED <<env, locals, output, procs, vetted, wsCreated, fetched, rmFailed, sanVars, callVars, otherVars>>

UpdateYml ==
  /\ pc = "updateYml"
  /\ \E budget \in {NoFault, 0, 1} :
       LET r == updateServerlessYml(fs, projectPath, argvName, budget)
       IN  fs' = r.fs /\ Outcome("updateYml", r.err)
  /\ UNCHANGED <<env, locals, output, procs, vetted, wsCreated, fetched, rmFailed, sanVars, callVars, otherVars>>

\* execSync("npm install --silent", { cwd: projectPath, stdio: "inherit" })
Install ==
  /\ pc = "install"
  /\ \E ok \in BOOLEAN :
       /\ fs' = IF ok THEN mkdirSync(fs, join(projectPath, <<"node_modules">>), FALSE).fs
                ELSE fs
       /\ Outcome("install", IF ok THEN <<>> ELSE ErrCommandFailed)
  /\ procs' = Append(procs, Proc(<<"npm install --silent">>, <<>>, projectPath, TRUE, "inherit", vetted))
  /\ UNCHANGED <<env, locals, output, vetted, wsCreated, fetched, rmFailed, sanVars, callVars, otherVars>>

Report ==
  /\ pc = "report"
  /\ Returns("report")
  /\ stdout' = Append(stdout, Banner(argvName))
  /\ UNCHANGED <<env, fs, locals, exitCode, stderr, procs, vetted, wsCreated, fetched, rmFailed,
                 sanVars, callVars, otherVars>>

\* lines 218-221: catch (error) { cleanupTemp(tempDir); throw error; }
Catch ==
  /\ pc = "catch"
  /\ \E budget \in {NoFault} \cup 0..Cardinality(Descendants(fs, tempDir)) :
       LET r == cleanupTemp(fs, tempDir, budget)
       IN  /\ fs' = r.fs
           /\ rmFailed' = IF r.err = <<>> THEN rmFailed ELSE rmFailed \cup {"recover"}
           /\ rejection' = IF r.err = <<>> THEN caught ELSE Error(r.err, "recover")
  /\ trace' = Append(trace, "recover")
  /\ pc' = "rejected"
  /\ UNCHANGED <<env, locals, caught, output, completed, procs, vetted, wsCreated, fetched,
                 sanVars, callVars, otherVars>>

\* lines 237-243: main().catch(...)
TopLevelCatch ==
  /\ pc = "rejected"
  /\ stderr' = Append(stderr, <<"Error:">> \o rejection.msg)
  /\ exitCode' = 1
  /\ pc' = "exited"
  /\ UNCHANGED <<env, fs, locals, caught, rejection, stdout, history, sanVars, callVars, otherVars>>

\* main's promise resolved and nothing is left to run
Exit ==
  /\ pc = "resolved"
  /\ exitCode' = 0
  /\ pc' = "exited"
  /\ UNCHANGED <<env, fs, locals, caught, rejection, stdout, stderr, history, sanVars, callVars, otherVars>>

Next ==
  \/ Start
  \/ CheckNode
  \/ CheckGit
  \/ CreateDir
  \/ Clone
  \/ Copy
  \/ Cleanup
  \/ UpdatePkg
  \/ UpdateYml
  \/ Install
  \/ Report
  \/ Catch
  \/ TopLevelCatch
  \/ Exit

Spec == Init /\ [][Next]_vars

\* The run as the process executes it: main is synchronous from its first
\* step to its last and the event loop then runs the rejection handler, so
\* a process that has not exited and is not waiting for a child that never
\* exits moves on.  Every step of Next changes pc, and a step of Next can
\* be taken exactly where Moves can, so this is weak fairness of Next.
Positions == Range(Order) \cup {"start", "catch", "rejected", "resolved", "exited", "blocked"}

Moves == pc \notin {"idle", "blocked", "exited"} /\ pc' \in Positions

SpecLive == Init /\ [][Next]_vars /\ WF_pc(Moves)

(***************************************************************************)
(* sanitizePath alone: called on every string of at most MaxLen            *)
(* characters, in a working directory, and then on the path it returned    *)
(* (as cloneBoilerplate calls it on a path built from a returned one).     *)
(***************************************************************************)
WorkDirs == {<<"/", "w">>, <<"/">>, <<"/", "&">>}

InitSan ==
  /\ cwd \in WorkDirs
  /\ sanIn \in StringsUpTo(MaxLen)
  /\ sanOut = Pending
  /\ sanAgain = Pending
  /\ fs = BaseFs({})
  /\ MainIdle /\ CallIdle /\ OtherIdle

CallSanitizePath ==
  /\ sanOut = Pending
  /\ sanOut' = sanitizePath(cwd, sanIn)
  /\ UNCHANGED <<env, fs, pc, locals, caught, rejection, output, history, sanIn, sanAgain,
                 callVars, otherVars>>

\* lines 78-80: sanitizePath on a path that sanitizePath returned
CallSanitizePathAgain ==
  /\ sanOut.ok
  /\ sanAgain = Pending
  /\ sanAgain' = sanitizePath(cwd, sanOut.value)
  /\ UNCHANGED <<env, fs, pc, locals, caught, rejection, output, history, sanIn, sanOut,
                 callVars, otherVars>>

NextSan == CallSanitizePath \/ CallSanitizePathAgain

SpecSan == InitSan /\ [][NextSan]_vars

(***************************************************************************)
(* createProjectDirectory alone: called once on a path of a small          *)
(* filesystem, with or without a failing filesystem call.                  *)
(***************************************************************************)
DirD == <<"/", "w", "/", "d">>
DirX == <<"/", "w", "/", "d", "/", "x">>
DirSub == <<"/", "w", "/", "d", "/", "sub">>
DirDeep == <<"/", "w", "/", "p", "/", "q">>

DirFilesystems ==
  { BaseFs({MainCwd}),
    BaseFs({DirD}),
    BaseFs({DirSub}),
    BaseFs({DirDeep}),
    BaseFs({DirD, DirDeep}),
    Overlay(BaseFs({DirD}), (DirX :> FileNode(<< <<"hello">> >>))),
    Overlay(BaseFs({DirD}), (join(DirD, <<".", "env">>) :> FileNode(<<>>))),
    Overlay(BaseFs({MainCwd}), (DirD :> FileNode(<<>>))) }

DirPaths == {DirD, DirX, DirSub, DirDeep, join(DirX, <<"y">>)}

NotCalled == <<"pending">>

InitDir ==
  /\ cwd = MainCwd
  /\ fs \in DirFilesystems
  /\ callPath \in DirPaths
  /\ callFault \in BOOLEAN
  /\ callPre = fs
  /\ callOut = NotCalled
  /\ UnitIdle
  /\ MainIdle /\ SanIdle /\ OtherIdle

CallCreateProjectDirectory ==
  /\ callOut = NotCalled
  /\ LET r == createProjectDirectory(fs, callPath, callFault)
     IN  fs' = r.fs /\ callOut' = r.err
  /\ UNCHANGED <<env, pc, locals, caught, rejection, output, history, sanVars,
                 callPath, callFault, callPre, callFn, callArgs, callCount, otherVars>>

NextDir == CallCreateProjectDirectory

SpecDir == InitDir /\ [][NextDir]_vars

(***************************************************************************)
(* The exported functions called alone, as the test suite calls them, on   *)
(* small filesystems under the working directory: a template tree, a       *)
(* target of the copy and a project directory with its two metadata files. *)
(***************************************************************************)
MaxCalls == 3

templateDir == <<"/", "w", "/", "template">>
targetDir == <<"/", "w", "/", "target">>
projectDir == <<"/", "w", "/", "proj">>

\* the tree of the copyDir test, and an empty directory
TemplateTree ==
  (<<"file", ".", "txt">> :> FileNode(<< <<"hello world">> >>))
  @@ (<<".", "dotfile">> :> FileNode(<< <<"dotfile">> >>))
  @@ (<<"sub">> :> DirNode)
  @@ (<<"sub", "/", "nested", ".", "txt">> :> FileNode(<< <<"nested">> >>))
  @@ (<<"hollow">> :> DirNode)

\* what is at the target before the copy
TargetStates == {"absent", "empty", "other", "older", "fileForDir", "dirForFile"}

TargetTree(state) ==
  CASE state = "other" -> (<<"keep", ".", "txt">> :> FileNode(<< <<"keep">> >>))
    [] state = "older" -> (<<"file", ".", "txt">> :> FileNode(<< <<"old">> >>))
    [] state = "fileForDir" -> (<<"hollow">> :> FileNode(<<>>))
    [] state = "dirForFile" -> (<<"file", ".", "txt">> :> DirNode)
    [] OTHER -> <<>>

CopyFs(state) ==
  LET withTemplate == Overlay(BaseFs({MainCwd}), Placed(TemplateTree, templateDir))
  IN  IF state = "absent" THEN withTemplate
      ELSE IF state = "empty" THEN Overlay(withTemplate, (targetDir :> DirNode))
      ELSE Overlay(withTemplate, Placed(TargetTree(state), targetDir))

\* package.json as the test writes it, and other texts
PackageTexts ==
  { << <<"{">>, <<"  ", "name", <<"old">>>>, <<"  ", "description", <<"desc">>>>, <<"}">> >>,
    << <<"{">>, <<"  ", "version", <<"1">>>>, <<"  ", "name", <<"old">>>>, <<"}">> >>,
    << <<"{">>, <<"    ", "name", <<"old">>>>, <<"    ", "name", <<"newer">>>>,
       <<"    ", "private", <<"true">>>>, <<"}">> >>,
    << <<"{">>, <<"}">> >>,
    JsonNull,
    JsonEmptyArray,
    BadPackage }

\* serverless.yml as the test writes it, and other texts
YmlTexts ==
  { << <<"service:", " ", "starter-name">>, <<"provider:">>, <<"  ", "name:", " ", "aws">>, <<>> >>,
    << <<"#", " ", "top">>, <<"service:", " ", "one">>, <<"service:", " ", "two">> >>,
    << <<"provider:">>, <<"  ", "service:", " ", "inner">> >>,
    << <<"service:">> >>,
    << <<>> >> }

\* no file: a text no file has
Absent == << <<"absent", "absent">> >>

ProjectFs(pkg, yml) ==
  LET base == BaseFs({projectDir})
      one == IF pkg = Absent THEN base
             ELSE Overlay(base, (join(projectDir, PackageJson) :> FileNode(pkg)))
  IN  IF yml = Absent THEN one
      ELSE Overlay(one, (join(projectDir, ServerlessYml) :> FileNode(yml)))

UnitFilesystems ==
  {CopyFs(state) : state \in TargetStates}
  \cup {ProjectFs(pkg, yml) : pkg \in PackageTexts \cup {Absent}, yml \in YmlTexts \cup {Absent}}

CopySources == {templateDir, join(templateDir, <<"sub">>), join(templateDir, <<"gone">>)}

CopyTargets == {targetDir, join(targetDir, <<"deep">>)}

CleanupPaths ==
  {templateDir, join(templateDir, <<"hollow">>), join(templateDir, <<"gone">>),
   join(templateDir, <<".", "dotfile">>)}

ProjectNames ==
  {<<"new-name">>, <<"a", "$", "&">>, <<"$", "$">>, <<"up", "$", "'">>, <<"x", "$", "1">>}

UnitMajors == {10, 18, 19, 20, 21, 22}

MinMajors == {Undefined, 10, 19, 20, 21, 99}

InitUnit ==
  /\ cwd = MainCwd
  /\ fs \in UnitFilesystems
  /\ callPre = fs
  /\ callPath = <<>> /\ callFault = FALSE /\ callOut = <<>>
  /\ UnitIdle
  /\ argvName = <<>> /\ tmpdir = <<>> /\ now = "" /\ nodeMajor \in UnitMajors
  /\ pc = "idle"
  /\ projectPath = <<>> /\ tempDir = <<>> /\ boilerplateSrc = <<>>
  /\ caught = NoError /\ rejection = NoError
  /\ exitCode = -1 /\ stdout = <<>> /\ stderr = <<>>
  /\ trace = <<>> /\ completed = <<>> /\ procs = <<>> /\ vetted = {}
  /\ wsCreated = FALSE /\ rmFailed = {} /\ fetched = <<>>
  /\ SanIdle /\ OtherIdle

\* a call of fn made on the filesystem fs, with outcome r
Records(fn, path, args, r) ==
  /\ callFn' = fn
  /\ callPath' = path
  /\ callArgs' = args
  /\ callPre' = fs
  /\ fs' = r.fs
  /\ callOut' = r.err
  /\ callCount' = callCount + 1
  /\ UNCHANGED <<env, pc, locals, caught, rejection, output, trace, completed, vetted,
                 wsCreated, fetched, rmFailed, sanVars, callFault, otherVars>>

CallCopyDir ==
  /\ callFn = "none"
  /\ ~existsSync(fs, projectDir)
  /\ \E src \in CopySources, dest \in CopyTargets :
       \E budget \in {NoFault} \cup 0..(Cardinality(Descendants(fs, src)) + 1) :
         Records("copyDir", src, [NoArgs EXCEPT !.dest = dest, !.budget = budget],
                 copyDir(fs, src, dest, budget))
  /\ UNCHANGED procs

\* cleanupTemp, called up to MaxCalls times in a row
CallCleanupTemp ==
  /\ callFn \in {"none", "cleanupTemp"}
  /\ callCount < MaxCalls
  /\ ~existsSync(fs, projectDir)
  /\ \E path \in CleanupPaths :
       \E budget \in {NoFault} \cup 0..Cardinality(Descendants(fs, path)) :
         Records("cleanupTemp", path, [NoArgs EXCEPT !.budget = budget],
                 cleanupTemp(fs, path, budget))
  /\ UNCHANGED procs

CallUpdatePackageJson ==
  /\ callFn = "none"
  /\ existsSync(fs, projectDir)
  /\ \E projectName \in ProjectNames, budget \in {NoFault, 0, 1} :
       Records("updatePackageJson", projectDir,
               [NoArgs EXCEPT !.projectName = projectName, !.budget = budget],
               updatePackageJson(fs, projectDir, projectName, budget))
  /\ UNCHANGED procs

CallUpdateServerlessYml ==
  /\ callFn = "none"
  /\ existsSync(fs, projectDir)
  /\ \E projectName \in ProjectNames, budget \in {NoFault, 0, 1} :
       Records("updateServerlessYml", projectDir,
               [NoArgs EXCEPT !.projectName = projectName, !.budget = budget],
               updateServerlessYml(fs, projectDir, projectName, budget))
  /\ UNCHANGED procs

CallCheckNodeVersion ==
  /\ callFn = "none"
  /\ \E arg \in MinMajors :
       Records("checkNodeVersion", <<>>, [NoArgs EXCEPT !.minMajor = arg],
               FsThrow(fs, checkNodeVersion(ProcessVersion(nodeMajor), arg)))
  /\ UNCHANGED procs

CallCheckGitInstalled ==
  /\ callFn = "none"
  /\ \E result \in ExecResults :
       Records("checkGitInstalled", <<>>, [NoArgs EXCEPT !.exec = result],
               FsThrow(fs, checkGitInstalled(result)))
  /\ procs' = Append(procs, Proc(<<"git">>, GitVersionArgs, <<>>, FALSE, "ignore", vetted))

NextUnit ==
  \/ CallCopyDir
  \/ CallCleanupTemp
  \/ CallUpdatePackageJson
  \/ CallUpdateServerlessYml
  \/ CallCheckNodeVersion
  \/ CallCheckGitInstalled

SpecUnit == InitUnit /\ [][NextUnit]_vars

(***************************************************************************)
(* The variant of main that copies a template shipped with the CLI         *)
(* (src/bin/create-stb.ts, lines 1-121): no git, no temporary workspace,   *)
(* no try block.                                                           *)
(***************************************************************************)
\* __dirname of the installed script
BundledBin == <<"/", "pkg", "/", "bin">>

\* the template trees an installation can hold, <<>> for none
Bundles == {<<>>, TemplateFull, TemplateBadPackage}

BundledOrder ==
  <<"checkNode", "createDir", "copy", "updatePkg", "updateYml", "install", "report">>

InitBundled ==
  /\ cwd = MainCwd
  /\ argvName \in Names
  /\ nodeMajor \in NodeMajors
  /\ \E pre \in (IF argvName = <<>> THEN {"absent"} ELSE PreStates), tree \in Bundles :
       LET f == InitFs({cwd, BundledBin}, resolve(cwd, <<cwd, argvName>>), pre)
       IN  fs = IF tree = <<>> THEN f
                ELSE Overlay(f, Placed(tree, resolve(cwd, <<BundledBin, <<".", ".">>, <<"serverless">>>>)))
  /\ pc = "start"
  /\ tmpdir = <<>> /\ now = ""
  /\ projectPath = <<>> /\ tempDir = <<>> /\ boilerplateSrc = <<>>
  /\ caught = NoError /\ rejection = NoError
  /\ exitCode = -1 /\ stdout = <<>> /\ stderr = <<>>
  /\ trace = <<>> /\ completed = <<>> /\ procs = <<>> /\ vetted = {}
  /\ wsCreated = FALSE /\ rmFailed = {} /\ fetched = <<>>
  /\ SanIdle /\ CallIdle /\ OtherIdle

\* the step at pc returned, or threw: nothing catches, main's promise is
\* rejected with the error
BundledOutcome(step, err) ==
  /\ pc = step
  /\ trace' = Append(trace, step)
  /\ IF err = <<>>
     THEN /\ pc' = (IF step = "report" THEN "resolved"
                    ELSE BundledOrder[1 + CHOOSE i \in 1..Len(BundledOrder) :
                                            BundledOrder[i] = step])
          /\ completed' = Append(completed, step)
          /\ rejection' = rejection
     ELSE /\ pc' = "rejected"
          /\ rejection' = Error(err, step)
          /\ completed' = completed
  /\ UNCHANGED <<env, locals, caught, procs, vetted, wsCreated, fetched, rmFailed,
                 sanVars, callVars, otherVars>>

\* lines 71-77
BundledStart ==
  /\ pc = "start"
  /\ IF argvName = <<>>
     THEN /\ stderr' = Append(stderr, ErrUsage)
          /\ exitCode' = 1
          /\ pc' = "exited"
          /\ UNCHANGED <<locals, stdout>>
     ELSE /\ projectPath' = resolve(cwd, <<cwd, argvName>>)
          /\ boilerplateSrc' = resolve(cwd, <<BundledBin, <<".", ".">>, <<"serverless">>>>)
          /\ pc' = BundledOrder[1]
          /\ UNCHANGED <<tempDir, output>>
  /\ UNCHANGED <<env, fs, caught, rejection, history, sanVars, callVars, otherVars>>

\* lines 79-81
BundledCheckNode ==
  /\ BundledOutcome("checkNode", checkNodeVersion(ProcessVersion(nodeMajor), Undefined))
  /\ UNCHANGED <<fs, output>>

\* lines 83-85
BundledCreateDir ==
  /\ pc = "createDir"
  /\ \E fault \in BOOLEAN :
       LET r == createProjectDirectory(fs, projectPath, fault)
       IN  fs' = r.fs /\ BundledOutcome("createDir", r.err)
  /\ UNCHANGED output

\* lines 87-89
BundledCopy ==
  /\ pc = "copy"
  /\ \E budget \in {NoFault} \cup 0..(Cardinality(Descendants(fs, boilerplateSrc)) + 1) :
       LET r == copyDir(fs, boilerplateSrc, projectPath, budget)
       IN  fs' = r.fs /\ BundledOutcome("copy", r.err)
  /\ UNCHANGED output

\* lines 91-97
BundledUpdate ==
  /\ \/ /\ pc = "updatePkg"
        /\ \E budget \in {NoFault, 0, 1} :
             LET r == updatePackageJson(fs, projectPath, argvName, budget)
             IN  fs' = r.fs /\ BundledOutcome("updatePkg", r.err)
     \/ /\ pc = "updateYml"
        /\ \E budget \in {NoFault, 0, 1} :
             LET r == updateServerlessYml(fs, projectPath, argvName, budget)
             IN  fs' = r.fs /\ BundledOutcome("updateYml", r.err)
  /\ UNCHANGED output

\* lines 99-104
BundledInstall ==
  /\ \/ /\ pc = "install"
        /\ \E ok \in BOOLEAN :
             /\ fs' = IF ok THEN mkdirSync(fs, join(projectPath, <<"node_modules">>), FALSE).fs
                      ELSE fs
             /\ BundledOutcome("install", IF ok THEN <<>> ELSE ErrCommandFailed)
        /\ UNCHANGED output
     \/ /\ pc = "report"
        /\ BundledOutcome("report", <<>>)
        /\ stdout' = Append(stdout, Banner(argvName))
        /\ UNCHANGED <<fs, exitCode, stderr>>

\* TopLevelCatch: lines 115-121, the same handler as in the other variant
NextBundled ==
  \/ BundledStart
  \/ BundledCheckNode
  \/ BundledCreateDir
  \/ BundledCopy
  \/ BundledUpdate
  \/ BundledInstall
  \/ TopLevelCatch
  \/ Exit

SpecBundled == InitBundled /\ [][NextBundled]_vars

(***************************************************************************)
(* Runs of the CLI on one host: each run is a process of its own executing *)
(* main, the filesystem and the clock are shared.  The runs may overlap,   *)
(* or one may start after another has exited.                              *)
(***************************************************************************)
RunIds == {1, 2}

RunNames == {<<"demo">>, <<"other">>}

\* the values Date.now() takes, in order: it advances by milliseconds
Clock == <<"1700000000000", "1700000000001">>

NewRun(name) ==
  [name |-> name, pc |-> "start", projectPath |-> <<>>, tempDir |-> <<>>,
   boilerplateSrc |-> <<>>, caught |-> NoError, rejection |-> NoError,
   exitCode |-> -1, stdout |-> <<>>, stderr |-> <<>>, trace |-> <<>>, after |-> {}]

InitRuns ==
  /\ cwd = MainCwd
  /\ tmpdir = <<"/", "t">>
  /\ now = Clock[1]
  /\ nodeMajor = MinNodeMajor
  /\ fs = BaseFs({cwd, tmpdir})
  /\ runs \in {r \in [RunIds -> {NewRun(n) : n \in RunNames}] : r[1].name = <<"demo">>}
  /\ seed = <<>>
  /\ argvName = <<>> /\ pc = "idle"
  /\ projectPath = <<>> /\ tempDir = <<>> /\ boilerplateSrc = <<>>
  /\ caught = NoError /\ rejection = NoError
  /\ exitCode = -1 /\ stdout = <<>> /\ stderr = <<>>
  /\ trace = <<>> /\ completed = <<>> /\ procs = <<>> /\ vetted = {}
  /\ wsCreated = FALSE /\ rmFailed = {} /\ fetched = <<>>
  /\ SanIdle /\ CallIdle

runFrame ==
  <<cwd, argvName, tmpdir, nodeMajor, pc, locals, caught, rejection, output, history,
    sanVars, callVars, seed>>

\* the step of run i returned, threw err or does not return
Advance(i, step, err) ==
  runs' = [runs EXCEPT ![i] =
             [@ EXCEPT !.pc = IF err = <<>> THEN StepAfter(step)
                              ELSE IF err = Blocked THEN "blocked" ELSE "catch",
                       !.trace = Append(@, step),
                       !.caught = IF err \in {<<>>, Blocked} THEN @ ELSE Error(err, step)]]

\* Date.now() has advanced
Tick ==
  /\ \E k \in 1..(Len(Clock) - 1) : now = Clock[k] /\ now' = Clock[k + 1]
  /\ UNCHANGED <<fs, runs, runFrame>>

\* lines 170-177; after: the runs that had exited when this one started
RunStart(i) ==
  /\ runs[i].pc = "start"
  /\ runs' = [runs EXCEPT ![i] =
                IF runs[i].name = <<>>
                THEN [@ EXCEPT !.stderr = Append(@, ErrUsage), !.exitCode = 1,
                               !.pc = "exited"]
                ELSE [@ EXCEPT !.projectPath = resolve(cwd, <<cwd, runs[i].name>>),
                               !.tempDir = join(tmpdir, <<"create-stb-", now>>),
                               !.pc = Order[1],
                               !.after = {j \in RunIds : runs[j].pc = "exited"}]]
  /\ UNCHANGED <<fs, now, runFrame>>

\* lines 180-186: the two checks
RunCheck(i) ==
  /\ \/ /\ runs[i].pc = "checkNode"
        /\ Advance(i, "checkNode", checkNodeVersion(ProcessVersion(nodeMajor), Undefined))
     \/ /\ runs[i].pc = "checkGit"
        /\ Advance(i, "checkGit", checkGitInstalled("ok"))
  /\ UNCHANGED <<fs, now, runFrame>>

\* lines 188-190
RunCreateDir(i) ==
  /\ runs[i].pc = "createDir"
  /\ LET r == createProjectDirectory(fs, runs[i].projectPath, FALSE)
     IN  fs' = r.fs /\ Advance(i, "createDir", r.err)
  /\ UNCHANGED <<now, runFrame>>

\* lines 192-194
RunClone(i) ==
  /\ runs[i].pc = "clone"
  /\ \E cloneResult \in {"ok", "failed"},
        tmpl \in {t \in Templates : t.tree = TemplateFull \/ ~t.present} :
       LET r == cloneBoilerplate(fs, cwd, runs[i].tempDir, cloneResult, TRUE, tmpl)
       IN  /\ fs' = r.fs
           /\ runs' = [runs EXCEPT ![i] =
                [@ EXCEPT !.pc = IF r.err = <<>> THEN StepAfter("clone") ELSE "catch",
                          !.trace = Append(@, "clone"),
                          !.caught = IF r.err = <<>> THEN @ ELSE Error(r.err, "clone"),
                          !.boilerplateSrc = r.value]]
  /\ UNCHANGED <<now, runFrame>>

\* lines 196-198
RunCopy(i) ==
  /\ runs[i].pc = "copy"
  /\ \E budget \in {NoFault, 0, 2} :
       LET r == copyDir(fs, runs[i].boilerplateSrc, runs[i].projectPath, budget)
       IN  fs' = r.fs /\ Advance(i, "copy", r.err)
  /\ UNCHANGED <<now, runFrame>>

\* lines 200-202
RunCleanup(i) ==
  /\ runs[i].pc = "cleanup"
  /\ LET r == cleanupTemp(fs, runs[i].tempDir, NoFault)
     IN  fs' = r.fs /\ Advance(i, "cleanup", r.err)
  /\ UNCHANGED <<now, runFrame>>

\* lines 204-210: the two rewriters
RunUpdate(i) ==
  /\ \/ /\ runs[i].pc = "updatePkg"
        /\ LET r == updatePackageJson(fs, runs[i].projectPath, runs[i].name, NoFault)
           IN  fs' = r.fs /\ Advance(i, "updatePkg", r.err)
     \/ /\ runs[i].pc = "updateYml"
        /\ LET r == updateServerlessYml(fs, runs[i].projectPath, runs[i].name, NoFault)
           IN  fs' = r.fs /\ Advance(i, "updateYml", r.err)
  /\ UNCHANGED <<now, runFrame>>

\* lines 212-217: the installation and the banner
RunInstall(i) ==
  /\ \/ /\ runs[i].pc = "install"
        /\ \E ok \in BOOLEAN :
             /\ fs' = IF ok
                      THEN mkdirSync(fs, join(runs[i].projectPath, <<"node_modules">>), FALSE).fs
                      ELSE fs
             /\ Advance(i, "install", IF ok THEN <<>> ELSE ErrCommandFailed)
     \/ /\ runs[i].pc = "report"
        /\ runs' = [runs EXCEPT ![i] =
                      [@ EXCEPT !.pc = "resolved", !.trace = Append(@, "report"),
                                !.stdout = Append(@, Banner(runs[i].name))]]
        /\ fs' = fs
  /\ UNCHANGED <<now, runFrame>>

\* lines 218-221
RunCatch(i) ==
  /\ runs[i].pc = "catch"
  /\ LET r == cleanupTemp(fs, runs[i].tempDir, NoFault)
     IN  /\ fs' = r.fs
         /\ runs' = [runs EXCEPT ![i] =
              [@ EXCEPT !.pc = "rejected", !.trace = Append(@, "recover"),
                        !.rejection = IF r.err = <<>> THEN runs[i].caught
                                      ELSE Error(r.err, "recover")]]
  /\ UNCHANGED <<now, runFrame>>

\* lines 237-243, or the end of the process after main resolved
RunExit(i) ==
  /\ \/ /\ runs[i].pc = "rejected"
        /\ runs' = [runs EXCEPT ![i] =
                      [@ EXCEPT !.pc = "exited", !.exitCode = 1,
                                !.stderr = Append(@, <<"Error:">> \o runs[i].rejection.msg)]]
     \/ /\ runs[i].pc = "resolved"
        /\ runs' = [runs EXCEPT ![i] = [@ EXCEPT !.pc = "exited", !.exitCode = 0]]
  /\ UNCHANGED <<fs, now, runFrame>>

NextRuns ==
  \/ Tick
  \/ \E i \in RunIds :
       \/ RunStart(i)
       \/ RunCheck(i)
       \/ RunCreateDir(i)
       \/ RunClone(i)
       \/ RunCopy(i)
       \/ RunCleanup(i)
       \/ RunUpdate(i)
       \/ RunInstall(i)
       \/ RunCatch(i)
       \/ RunExit(i)

SpecRuns == InitRuns /\ [][NextRuns]_vars

(***************************************************************************)
(* The seeding helpers of the template (src/serverless/src/lib/seed.ts).   *)
(* put is the caller's function: each call of it resolves, rejects or      *)
(* throws.  Every await is a point where the helper is suspended.          *)
(***************************************************************************)
MaxItems == 3

Items == {"a", "b"}

DataArrays == UNION {[1..n -> Items] : n \in 0..MaxItems}

SeedFunctions == {"seedTable", "generateAndSeed"}

\* what a caller passes as postProcess: nothing, a function returning a new
\* array (here: the items other than "b"), a function returning the empty
\* array, a function changing the array in place and returning nothing
\* (here: the first item is taken out)
PostProcessors == {"none", "filter", "empty", "inPlace"}

NoResult == [defined |-> FALSE, value |-> <<>>]

\* postProcess(data): the value returned and the array as it is afterwards
postProcess(kind, data) ==
  CASE kind = "filter" ->
         [result |-> [defined |-> TRUE, value |-> SelectSeq(data, LAMBDA x : x # "b")],
          data |-> data]
    [] kind = "empty" -> [result |-> [defined |-> TRUE, value |-> <<>>], data |-> data]
    [] OTHER -> [result |-> NoResult, data |-> IF data = <<>> THEN data ELSE Tail(data)]

\* lines 40-44: let data = generator(); if (postProcess) { ... }
Generated(raw, kind) ==
  IF kind = "none" THEN raw
  ELSE LET r == postProcess(kind, raw)
       IN  IF r.result.defined THEN r.result.value ELSE r.data

SeedCalled(fn, raw, kind) ==
  [fn |-> fn, raw |-> raw, post |-> kind, pc |-> "called", data |-> <<>>, next |-> 1,
   attempts |-> <<>>, failed |-> {}, log |-> <<>>, errors |-> <<>>, returned |-> NoResult]

\* the helper up to its loop
Enter(s) ==
  IF s.fn = "seedTable"
  THEN [s EXCEPT !.pc = "loop", !.data = s.raw,
                 !.log = Append(@, <<"Seeding", ToString(Len(s.raw)), "items">>)]
  ELSE [s EXCEPT !.pc = "loop", !.data = Generated(s.raw, s.post)]

\* one turn of the loop with the first failed put ending it
PutItemStopping(s, outcome) ==
  LET item == s.data[s.next]
      t == [s EXCEPT !.attempts = Append(@, item), !.next = @ + 1]
  IN  IF outcome = "resolves" THEN t
      ELSE [t EXCEPT !.failed = @ \cup {s.next}, !.errors = Append(@, <<"Error seeding", item>>),
                     !.next = Len(s.data) + 1]

\* one turn of the loop: try { await put(tableName, item) } catch (error) {
\* console.error(...) }
PutItem(s, outcome) ==
  LET item == s.data[s.next]
      t == [s EXCEPT !.attempts = Append(@, item), !.next = @ + 1]
  IN  IF outcome = "resolves" THEN t
      ELSE [t EXCEPT !.failed = @ \cup {s.next}, !.errors = Append(@, <<"Error seeding", item>>)]

\* the helper after its loop
Leave(s) ==
  IF s.fn = "seedTable"
  THEN [s EXCEPT !.pc = "returned"]
  ELSE [s EXCEPT !.pc = "returned",
                 !.log = Append(@, <<"generated & seeded", ToString(Len(s.data)), "items">>),
                 !.returned = [defined |-> TRUE, value |-> s.data]]

InitSeed ==
  /\ seed \in {SeedCalled(fn, raw, kind) :
                 fn \in SeedFunctions, raw \in DataArrays, kind \in PostProcessors}
  /\ seed.fn = "seedTable" => seed.post = "none"
  /\ runs = <<>>
  /\ cwd = MainCwd
  /\ fs = BaseFs({})
  /\ MainIdle /\ SanIdle /\ CallIdle

seedFrame ==
  <<env, fs, pc, locals, caught, rejection, output, history, sanVars, callVars, runs>>

SeedEnter ==
  /\ seed.pc = "called"
  /\ seed' = Enter(seed)
  /\ UNCHANGED seedFrame

SeedPut ==
  /\ seed.pc = "loop"
  /\ seed.next <= Len(seed.data)
  /\ \E outcome \in {"resolves", "rejects", "throws"} : seed' = PutItem(seed, outcome)
  /\ UNCHANGED seedFrame

SeedLeave ==
  /\ seed.pc = "loop"
  /\ seed.next > Len(seed.data)
  /\ seed' = Leave(seed)
  /\ UNCHANGED seedFrame

NextSeed == SeedEnter \/ SeedPut \/ SeedLeave

SpecSeed == InitSeed /\ [][NextSeed]_vars

(***************************************************************************)
(* Properties                                                              *)
(***************************************************************************)
IsPrefix(a, b) == Len(a) <= Len(b) /\ SubSeq(b, 1, Len(a)) = a

Stopped == pc \in {"resolved", "rejected", "exited"}

\* the steps of the try block that were started, the recovery left out
PipelineTrace == SelectSeq(trace, LAMBDA x : x # "recover")

\* C1: whenever a step of main fails, cleanupTemp is invoked on the
\* temporary workspace before main rejects, and main rejects with the very
\* error the failing step raised.
C1_RejectsWithStepError ==
  pc = "rejected" =>
    /\ Len(trace) > 0 /\ trace[Len(trace)] = "recover"
    /\ caught # NoError
    /\ rejection = caught

\* C2: when main has stopped, at whatever step, and no recursive removal
\* failed, nothing exists at the temporary workspace path.
C2_NoWorkspaceLeft ==
  (Stopped /\ tempDir # <<>> /\ rmFailed = {}) =>
    \A p \in DOMAIN fs : p # tempDir /\ ~IsUnder(p, tempDir)

\* a clone failed after creating files, and the run ended without them
C2_Witness ==
  /\ pc = "rejected" /\ caught.from = "clone" /\ wsCreated /\ rmFailed = {}
  /\ ~existsSync(fs, tempDir)

\* C3: when a step fails and the cleanup of the failure path fails too,
\* main still rejects with the error of the step, not with the cleanup's.
C3_CleanupErrorSwallowed ==
  (pc = "rejected" /\ "recover" \in rmFailed) => rejection = caught

\* runtime check, git check, create project directory, acquire template,
\* copy template, remove temporary workspace, rewrite package.json, rewrite
\* serverless.yml, install dependencies, report completion
StatedOrder ==
  <<"checkNode", "checkGit", "createDir", "clone", "copy", "cleanup",
    "updatePkg", "updateYml", "install", "report">>

\* C4: the steps run in the fixed order, each one only after the one before
\* it returned, none twice, and none after a step has failed.
C4_FixedOrder ==
  /\ IsPrefix(completed, StatedOrder)
  /\ IsPrefix(PipelineTrace, StatedOrder)
  /\ IsPrefix(completed, PipelineTrace)
  /\ Len(PipelineTrace) <= Len(completed) + 1
  /\ caught # NoError => PipelineTrace = Append(completed, caught.from)
  /\ pc = "resolved" => completed = StatedOrder

\* the copy failed after four steps returned, and the run ended there
C4_Witness ==
  /\ pc = "rejected" /\ caught.from = "copy"
  /\ trace = <<"checkNode", "checkGit", "createDir", "clone", "copy", "recover">>

\* C5: if createProjectDirectory fails, no temporary workspace has been
\* created in the run and no git clone has been attempted.
C5_NoWorkspaceBeforeProjectDir ==
  caught.from = "createDir" =>
    /\ ~wsCreated
    /\ \A p \in DOMAIN fs : p # tempDir /\ ~IsUnder(p, tempDir)
    /\ \A i \in 1..Len(trace) : trace[i] # "clone"
    /\ \A i \in 1..Len(procs) : procs[i].args[1] # <<"clone">>

C5_Witness ==
  pc = "rejected" /\ caught = Error(ErrNotEmpty(projectPath), "createDir")

\* what the claims about sanitizePath call the trimmed value of the input
Blank(s) == \A i \in 1..Len(s) : s[i] \in Whitespace

HyphenFirst(s) ==
  \E i \in 1..Len(s) : s[i] = "-" /\ \A j \in 1..(i - 1) : s[j] \in Whitespace

HasDangerous(s) == \E i \in 1..Len(s) : s[i] \in DangerousChars

Trimmed(s) ==
  LET keep == {i \in 1..Len(s) : s[i] \notin Whitespace}
  IN  IF keep = {} THEN <<>>
      ELSE SubSeq(s, CHOOSE i \in keep : \A j \in keep : i <= j,
                     CHOOSE i \in keep : \A j \in keep : i >= j)

\* C6: sanitizePath fails, and returns no path, for every input whose
\* trimmed value is empty or begins with a hyphen, or which holds one of
\* the characters ` $ | ; & < > or the null byte.
C6_SanitizeRejects ==
  (sanOut # Pending /\ (Blank(sanIn) \/ HyphenFirst(sanIn) \/ HasDangerous(sanIn))) =>
    /\ ~sanOut.ok
    /\ sanOut.value = NoValue
    /\ sanOut.err \in {ErrEmptyPath, ErrDangerous}

\* a hyphen after leading whitespace is rejected
C6_Witness ==
  sanIn = <<" ", "-", "a">> /\ sanOut # Pending /\ ~sanOut.ok

\* The resolution of s against the working directory wd, read off from the
\* right: a ".." cancels the nearest named segment on its left.
RECURSIVE KeepFromRight(_, _)
KeepFromRight(segs, skip) ==
  IF Len(segs) = 0 THEN <<>>
  ELSE LET seg == segs[Len(segs)]
           front == SubSeq(segs, 1, Len(segs) - 1)
       IN  IF seg = <<>> \/ seg = <<".">> THEN KeepFromRight(front, skip)
           ELSE IF seg = <<".", ".">> THEN KeepFromRight(front, skip + 1)
           ELSE IF skip > 0 THEN KeepFromRight(front, skip - 1)
           ELSE Append(KeepFromRight(front, 0), seg)

Resolution(wd, s) ==
  LET full == IF Len(s) > 0 /\ s[1] = "/" THEN s ELSE wd \o <<"/">> \o s
      kept == KeepFromRight(Segments(full), 0)
  IN  IF Len(kept) = 0 THEN <<"/">> ELSE <<"/">> \o JoinSlash(kept)

AbsoluteNormalized(p) ==
  /\ Len(p) > 0 /\ p[1] = "/"
  /\ p = <<"/">> \/
       \A i \in 1..Len(Segments(p)) :
         LET seg == Segments(p)[i]
         IN  /\ seg # <<".">> /\ seg # <<".", ".">>
             /\ (seg = <<>>) = (i = 1)

\* C7, as stated: for every non-empty string with none of the characters
\* and no leading hyphen, sanitizePath returns the absolute normalized
\* resolution of the input against the working directory.
C7_ResolvesEveryOtherInput ==
  (sanOut # Pending /\ Len(sanIn) > 0 /\ ~HasDangerous(sanIn) /\ ~(sanIn[1] = "-")) =>
    /\ sanOut.ok
    /\ sanOut.value = Resolution(cwd, sanIn)

\* C7, amended: for every string whose trimmed value is non-empty, holds
\* none of the characters and does not begin with a hyphen, sanitizePath
\* returns the absolute normalized resolution of the trimmed value.
C7_ResolvesTrimmedInput ==
  (sanOut # Pending /\ ~Blank(sanIn) /\ ~HasDangerous(sanIn) /\ ~HyphenFirst(sanIn)) =>
    /\ sanOut.ok
    /\ AbsoluteNormalized(sanOut.value)
    /\ sanOut.value = Resolution(cwd, Trimmed(sanIn))

\* a ".." after a leading space: trimmed, then resolved to the root
C7_Witness ==
  /\ cwd = <<"/", "w">> /\ sanIn = <<" ", ".", ".">>
  /\ sanOut = Returned(<<"/">>)

\* the paths given to a subprocess: the absolute paths of its argument
\* vector and its working directory
PathsGiven(proc) ==
  {proc.args[i] : i \in {j \in 1..Len(proc.args) : isAbsolute(proc.args[j])}}
  \cup (IF proc.cwd = <<>> THEN {} ELSE {proc.cwd})

\* C8, as stated: every path derived from the project name or from the
\* temporary directory that is given to a subprocess has first been
\* returned by sanitizePath.
C8_EveryPathSanitized ==
  \A i \in 1..Len(procs) : PathsGiven(procs[i]) \subseteq procs[i].vetted

\* C8, amended: every such path given to a git subprocess, as an argument
\* or as its working directory, has first been returned by sanitizePath
\* (the project path, the working directory of npm install, has not).
C8_GitPathsSanitized ==
  \A i \in 1..Len(procs) :
    procs[i].file = <<"git">> => PathsGiven(procs[i]) \subseteq procs[i].vetted

\* both git subprocesses of cloneBoilerplate were started with a path
C8_Witness ==
  /\ \E i \in 1..Len(procs) :
       /\ procs[i].file = <<"git">>
       /\ procs[i].args[1] = <<"clone">>
       /\ PathsGiven(procs[i]) # {}
  /\ \E i \in 1..Len(procs) :
       procs[i].file = <<"git">> /\ procs[i].cwd # <<>>

Called == callOut # NotCalled

NonEmptyBefore == existsSync(callPre, callPath) /\ Children(callPre, callPath) # {}

NamesPath(msg, path) ==
  \E i \in 1..Len(msg) :
    i + Len(path) - 1 <= Len(msg) /\ SubSeq(msg, i, i + Len(path) - 1) = path

\* the message holds the words "not empty"
SaysNotEmpty(msg) == \E i \in 1..Len(msg) : msg[i] = "\" exists and is not empty."

CreatedWithParents ==
  /\ DOMAIN fs = DOMAIN callPre \cup Ancestry(callPath)
  /\ \A p \in DOMAIN callPre : fs[p] = callPre[p]
  /\ \A p \in Ancestry(callPath) : IsDir(fs, p)

NoFileOnPath == \A a \in Ancestry(callPath) : ~IsFile(callPre, a)

InSource(p) ==
  boilerplateSrc # <<>> /\ (p = boilerplateSrc \/ IsUnder(p, boilerplateSrc))

\* C12: the copy step, whether it returns or fails part-way, leaves every
\* file and directory of the template source in place with its content,
\* and only cleanupTemp (the cleanup step or the catch block) removes any.
C12_CopyLeavesSource ==
  [][/\ pc = "copy" =>
          \A p \in DOMAIN fs : InSource(p) => p \in DOMAIN fs' /\ fs'[p] = fs[p]
     /\ (\E p \in DOMAIN fs : InSource(p) /\ p \notin DOMAIN fs') =>
          pc \in {"cleanup", "catch"}]_vars

\* the copy failed after it had copied something, the source still whole
C12_Witness ==
  /\ pc = "catch" /\ caught.from = "copy"
  /\ Children(fs, projectPath) # {}
  /\ \A r \in DOMAIN TemplateFull : existsSync(fs, join(boilerplateSrc, r))

\* the two metadata files of the run
RunPackage == join(projectPath, PackageJson)

RunYml == join(projectPath, ServerlessYml)

HasDollar(name) == \E i \in 1..Len(name) : name[i] = "$"

\* the member lines of a descriptor with the key k
MemberLines(text, k) == {i \in 1..Len(text) : Len(text[i]) = 3 /\ text[i][2] = k}

PackageRewritten ==
  LET text == fs[RunPackage].data
  IN  /\ MemberLines(text, "name") # {}
      /\ \A i \in MemberLines(text, "name") : text[i][3] = argvName
      /\ \A i \in MemberLines(text, "description") :
           text[i][3] = argvName \o <<" app description">>

\* the service line is no longer the template's; it is `service: <name>`
\* for a name without a dollar sign
YmlRewritten ==
  LET line == fs[RunYml].data[1]
  IN  /\ line # GoodYml[1]
      /\ ~HasDollar(argvName) => line = <<"service:", " ">> \o argvName

\* C16: a rewriter whose file is absent returns without error, creating
\* and changing nothing, and the run goes on with the next step: with one
\* of the two files absent the other is rewritten and the install starts.
C16_AbsentFileIsSkipped ==
  /\ [][/\ (pc = "updatePkg" /\ ~existsSync(fs, RunPackage)) =>
             (fs' = fs /\ caught' = NoError /\ pc' = "updateYml")
        /\ (pc = "updateYml" /\ ~existsSync(fs, RunYml)) =>
             (fs' = fs /\ caught' = NoError /\ pc' = "install")]_vars
  /\ [](pc = "install" =>
          /\ (~existsSync(fs, RunPackage) /\ existsSync(fs, RunYml)) => YmlRewritten
          /\ (~existsSync(fs, RunYml) /\ existsSync(fs, RunPackage)) => PackageRewritten)
  /\ []((Stopped /\ "updateYml" \in Range(completed)) => "install" \in Range(trace))

\* a template without package.json: serverless.yml was rewritten and the
\* install subprocess was started
C16_Witness ==
  /\ pc = "report"
  /\ ~existsSync(fs, RunPackage)
  /\ fs[RunYml].data[1] = <<"service:", " ", "demo">>
  /\ \E i \in 1..Len(procs) : procs[i].file = <<"npm install --silent">>

Malformed(f) == IsFile(f, RunPackage) /\ ~JSONparse(f[RunPackage].data).ok

\* C17: with a malformed package.json the rewrite step fails, with the
\* parse error when the file could be read, and leaves the file as it was;
\* the run stops there: serverless.yml is not rewritten, the install
\* subprocess is not started and the process exits with a non-zero status.
C17_MalformedPackageAborts ==
  /\ [][(pc = "updatePkg" /\ Malformed(fs)) =>
          /\ fs' = fs
          /\ pc' = "catch"
          /\ caught'.from = "updatePkg"
          /\ caught'.msg \in {ErrSyntax, ErrIO}]_vars
  /\ [](caught.from = "updatePkg" =>
          /\ "updateYml" \notin Range(trace) /\ "install" \notin Range(trace)
          /\ \A i \in 1..Len(procs) : procs[i].file = <<"git">>
          /\ IsFile(fs, RunYml) => fs[RunYml].data = GoodYml
          /\ pc # "resolved"
          /\ pc = "exited" => exitCode = 1)

\* the run ended on the parse error, the malformed file as it was
C17_Witness ==
  /\ pc = "exited" /\ exitCode = 1
  /\ caught = Error(ErrSyntax, "updatePkg")
  /\ fs[RunPackage].data = BadPackage
  /\ fs[RunYml].data = GoodYml

\* C20: invoked without a project name, the CLI prints a usage message to
\* standard error and exits with a non-zero status, no exception raised
\* and no step run: no directory and no temporary workspace is created, no
\* subprocess is started.
C20_NoNameIsUsageError ==
  (argvName = <<>> /\ pc # "start") =>
    /\ pc = "exited" /\ exitCode > 0
    /\ stderr = << <<"Please provide a project name.">> >> /\ stdout = <<>>
    /\ caught = NoError /\ rejection = NoError
    /\ trace = <<>> /\ completed = <<>>
    /\ procs = <<>>
    /\ ~wsCreated
    /\ DOMAIN fs = {Root, cwd, tmpdir}

C20_Witness ==
  /\ argvName = <<>> /\ pc = "exited" /\ exitCode = 1
  /\ Len(stderr) = 1

InstallStarted == \E i \in 1..Len(procs) : procs[i].file = <<"npm install --silent">>

\* C21: the process exits 0 only when every step of the pipeline, the
\* dependency installation included, returned, and then the completion
\* banner has been printed; once a step has failed the banner is never
\* printed, and when the process has exited the message of that step's
\* error is on standard error and the exit status is not 0.
C21_ExitReflectsOutcome ==
  /\ exitCode = 0 =>
       /\ completed = StatedOrder /\ caught = NoError /\ InstallStarted
       /\ stdout = <<Banner(argvName)>>
  /\ caught # NoError => stdout = <<>>
  /\ (pc = "exited" /\ caught # NoError) =>
       /\ exitCode > 0
       /\ stderr = << <<"Error:">> \o caught.msg >>

\* C24: a git clone that never completes does not block the run for ever:
\* the run goes on to exit with a status other than 0, the workspace removed.
C24_AcquisitionBounded ==
  (pc = "blocked") ~>
    (pc = "exited" /\ exitCode > 0 /\ \A p \in DOMAIN fs : p # tempDir /\ ~IsUnder(p, tempDir))

EndsInWhitespace(s) == Len(s) > 0 /\ s[Len(s)] \in Whitespace

Returned0(fn) == callFn = fn /\ callOut = <<>>

\* the place under dest of the entry p of src
Mirror(src, dest, p) == join(dest, SubSeq(p, Len(src) + 2, Len(p)))

\* C11: after copyDir(src, dest) returns, for every file and directory of
\* src, at any depth, dot-prefixed ones included, dest holds an entry at
\* the same relative path, a directory for a directory and a file with the
\* same content for a file, whether or not dest existed before.
C11_CopyMirrorsSource ==
  Returned0("copyDir") =>
    \A p \in Descendants(callPre, callPath) :
      LET q == Mirror(callPath, callArgs.dest, p)
      IN  /\ existsSync(fs, q)
          /\ fs[q].kind = callPre[p].kind
          /\ fs[q].data = callPre[p].data


\* C13: after cleanupTemp(path) returns, path does not exist, whether it
\* was a populated directory, an empty one or absent; on an absent path it
\* raises no error and changes nothing, also when called again in a row.
C13_CleanupRemovesPath ==
  callFn = "cleanupTemp" =>
    /\ callOut = <<>> =>
         ~existsSync(fs, callPath) /\ Descendants(fs, callPath) = {}
    /\ callArgs.budget = NoFault => callOut = <<>>
    /\ ~existsSync(callPre, callPath) => callOut = <<>> /\ fs = callPre

\* the populated directory was removed by a first call, and a second call
\* on it returned
C13_Witness ==
  /\ callFn = "cleanupTemp" /\ callCount = 2 /\ callPath = templateDir
  /\ ~existsSync(callPre, templateDir) /\ existsSync(callPre, targetDir)
  /\ callOut = <<>>


\* the descriptor before and after a call of updatePackageJson
PackageFile == join(callPath, PackageJson)

PackageBefore == callPre[PackageFile].data

PackageAfter == fs[PackageFile].data

Missing == <<"undefined">>

\* the keys of the members of a JSON text, and the value of the field k:
\* that of the last member with the key
KeysOf(text) == {text[i][2] : i \in {j \in 2..(Len(text) - 1) : Len(text[j]) = 3}}

FieldOf(text, k) ==
  LET at == {i \in 2..(Len(text) - 1) : Len(text[i]) = 3 /\ text[i][2] = k}
  IN  IF at = {} THEN Missing ELSE text[CHOOSE i \in at : \A j \in at : j <= i][3]

NameAndDescriptionSet ==
  /\ callOut = <<>>
  /\ IsFile(fs, PackageFile)
  /\ JSONparse(PackageAfter).ok
  /\ FieldOf(PackageAfter, "name") = callArgs.projectName
  /\ FieldOf(PackageAfter, "description") = callArgs.projectName \o <<" app description">>
  /\ KeysOf(PackageAfter) = KeysOf(PackageBefore) \cup {"name", "description"}
  /\ \A k \in KeysOf(PackageBefore) \ {"name", "description"} :
       FieldOf(PackageAfter, k) = FieldOf(PackageBefore, k)

UpdatedPackage ==
  /\ callFn = "updatePackageJson"
  /\ callArgs.budget = NoFault
  /\ IsFile(callPre, PackageFile)

\* C14, as stated: when package.json exists and parses, updatePackageJson
\* rewrites it with name = projectName and description = "<projectName> app
\* description", every other field keeping its value.
C14_SetsNameAndDescription ==
  (UpdatedPackage /\ JSONparse(PackageBefore).ok) => NameAndDescriptionSet

\* C14, amended: the same when package.json parses to a JSON object; when
\* it parses to null the call fails with a TypeError and the file is left
\* as it was; when it parses to an array the file is rewritten as that
\* array, with no name and no description.
C14_SetsNameAndDescriptionOfObject ==
  /\ (UpdatedPackage /\ JSONparse(PackageBefore).ok
        /\ PackageBefore[1] = <<"{">>) => NameAndDescriptionSet
  /\ (UpdatedPackage /\ PackageBefore = JsonNull) => callOut = ErrType /\ fs = callPre
  /\ (UpdatedPackage /\ PackageBefore = JsonEmptyArray) =>
       callOut = <<>> /\ PackageAfter = JsonEmptyArray

\* a descriptor with two name members and another field was rewritten
C14_Witness ==
  /\ UpdatedPackage /\ callOut = <<>>
  /\ callArgs.projectName = <<"new-name">>
  /\ FieldOf(PackageBefore, "name") = <<"newer">>
  /\ FieldOf(PackageAfter, "name") = <<"new-name">>
  /\ FieldOf(PackageAfter, "private") = <<"true">>


\* serverless.yml before and after a call of updateServerlessYml
YmlFile == join(callPath, ServerlessYml)

YmlBefore == callPre[YmlFile].data

YmlAfter == fs[YmlFile].data

\* the lines that match ^service:.*$
ServiceLines(lines) ==
  {i \in 1..Len(lines) : Len(lines[i]) > 0 /\ lines[i][1] = "service:"}

UpdatedYml ==
  /\ callFn = "updateServerlessYml"
  /\ callArgs.budget = NoFault
  /\ IsFile(callPre, YmlFile)

\* C15: for every project name and every existing serverless.yml,
\* updateServerlessYml replaces the first line matching ^service:.*$ with
\* exactly `service: <projectName>` and leaves every other line as it was,
\* later matching lines included; with no matching line the content is
\* unchanged; no error is raised.
C15_ReplacesFirstServiceLine ==
  UpdatedYml =>
    /\ callOut = <<>>
    /\ IsFile(fs, YmlFile)
    /\ IF ServiceLines(YmlBefore) = {} THEN YmlAfter = YmlBefore
       ELSE LET first == CHOOSE i \in ServiceLines(YmlBefore) :
                           \A j \in ServiceLines(YmlBefore) : i <= j
            IN  YmlAfter =
                  [YmlBefore EXCEPT ![first] = <<"service:", " ">> \o callArgs.projectName]


\* the threshold of a call of checkNodeVersion: its argument, 20 without one
Threshold == IF callArgs.minMajor = Undefined THEN 20 ELSE callArgs.minMajor

\* C18: checkNodeVersion(minMajor) fails, with a message that holds
\* "required" and the minimum major version, exactly when the major
\* version of the runtime is lower than minMajor; without an argument the
\* threshold is 20.
C18_NodeVersionThreshold ==
  callFn = "checkNodeVersion" =>
    /\ (callOut # <<>>) = (nodeMajor < Threshold)
    /\ callOut # <<>> =>
         /\ \E i \in 1..Len(callOut) : callOut[i] = "+ required"
         /\ \E i \in 1..Len(callOut) : callOut[i] = ToString(Threshold)
    /\ fs = callPre

\* major version 19, no argument: refused with the threshold 20
C18_Witness ==
  /\ callFn = "checkNodeVersion" /\ callArgs.minMajor = Undefined /\ nodeMajor = 19
  /\ callOut = <<"Node.js v", "20", "+ required">>


\* C19: checkGitInstalled starts git once, with the argument vector
\* ["--version"] and its output discarded; it fails with the "Git is not
\* installed" error whenever git cannot be started or ends abnormally,
\* whatever the error of the invocation, and returns otherwise.
C19_GitCheckedOnce ==
  callFn = "checkGitInstalled" =>
    /\ Len(procs) = 1
    /\ procs[1].file = <<"git">> /\ ~procs[1].shell
    /\ procs[1].args = << <<"-", "-", "version">> >>
    /\ procs[1].stdio = "ignore"
    /\ (callOut = <<>>) = (callArgs.exec = "ok")
    /\ callOut # <<>> =>
         callOut = <<"Git is not installed. Please install git and try again.">>
    /\ fs = callPre

\* git was started and killed by a signal
C19_Witness ==
  /\ callFn = "checkGitInstalled" /\ callArgs.exec = "signal"
  /\ Len(procs) = 1 /\ callOut # <<>>

(***************************************************************************)
(* The run from end to end                                                 *)
(***************************************************************************)
\* the directory <cwd>/N of the run
Project == join(cwd, argvName)

\* every entry of the template tree is under the directory, the files
\* other than the two rewritten ones with the template's content
HoldsTemplate(dir, tree) ==
  \A r \in DOMAIN tree :
    /\ existsSync(fs, join(dir, r))
    /\ fs[join(dir, r)].kind = tree[r].kind
    /\ r \notin {PackageJson, ServerlessYml} => fs[join(dir, r)] = tree[r]

\* C22: when the CLI was run with the name N, fetched the full template and
\* every step returned, then <cwd>/N is a directory holding the full
\* template tree, the name of N/package.json is N, the service line of
\* N/serverless.yml is `service: N`, nothing is left at the temporary
\* workspace and the exit status is 0.
C22_EndToEnd ==
  (pc = "exited" /\ completed = StatedOrder /\ fetched = TemplateFull) =>
    /\ IsDir(fs, Project)
    /\ HoldsTemplate(Project, TemplateFull)
    /\ FieldOf(fs[join(Project, PackageJson)].data, "name") = argvName
    /\ fs[join(Project, ServerlessYml)].data[1] = <<"service:", " ">> \o argvName
    /\ ServiceLines(fs[join(Project, ServerlessYml)].data) = {1}
    /\ \A p \in DOMAIN fs : p # tempDir /\ ~IsUnder(p, tempDir)
    /\ exitCode = 0

(***************************************************************************)
(* Runs on one host                                                        *)
(***************************************************************************)
Started(i) == runs[i].tempDir # <<>>

\* the entries at and under the path, in either of two filesystems
Within(f, g, path) == {p \in DOMAIN f \cup DOMAIN g : p = path \/ IsUnder(p, path)}

SameAt(f, g, p) == (p \in DOMAIN f <=> p \in DOMAIN g) /\ (p \in DOMAIN f => f[p] = g[p])

\* C23: two runs on one host, overlapping or not, never have the same
\* temporary workspace path, and no step of one run creates, changes or
\* removes anything at or under the workspace of the other.
C23_WorkspacesDistinct ==
  /\ [](\A i, j \in RunIds :
          (i # j /\ Started(i) /\ Started(j)) => runs[i].tempDir # runs[j].tempDir)
  /\ [][\A i, j \in RunIds :
          (i # j /\ runs'[i] # runs[i] /\ Started(j) /\ runs[j].pc # "exited") =>
            \A p \in Within(fs, fs', runs[j].tempDir) : SameAt(fs, fs', p)]_vars

\* run i has exited after a failure at the copy step or a later one
FailedLate(i) ==
  /\ runs[i].pc = "exited"
  /\ runs[i].caught.from \in {"copy", "cleanup", "updatePkg", "updateYml", "install"}

\* run j was started after run i had exited, with the same project name
\* (the working directory is the same)
Follows(j, i) == i # j /\ i \in runs[j].after /\ runs[j].name = runs[i].name

\* the steps of the try block that run i has started
StepsOf(i) == SelectSeq(runs[i].trace, LAMBDA x : x # "recover")

\* no step of any run removes an entry at or under the project path of a run
ProjectPathKept ==
  \A i \in RunIds : \A p \in DOMAIN fs :
    (runs[i].projectPath # <<>> /\ (p = runs[i].projectPath \/ IsUnder(p, runs[i].projectPath)))
      => p \in DOMAIN fs'

\* C27, as stated: main never removes or empties the project path, and a
\* run that follows, with the same name, a run that failed at the copy
\* step or later fails at createProjectDirectory with the "not empty"
\* error and starts no later step.
C27_NextRunFailsNotEmpty ==
  /\ [][ProjectPathKept]_vars
  /\ [](\A i, j \in RunIds :
          (FailedLate(i) /\ Follows(j, i) /\ "createDir" \in Range(runs[j].trace)) =>
            /\ runs[j].caught = Error(ErrNotEmpty(runs[j].projectPath), "createDir")
            /\ StepsOf(j) = <<"checkNode", "checkGit", "createDir">>)

\* C27, amended: the same for a directory the failed run left with an
\* entry in it, which every failure after the copy step does; a copy step
\* that failed before it created anything leaves the directory empty, and
\* the following run passes createProjectDirectory and goes on to the clone.
C27_NextRunFailsIfEntriesLeft ==
  /\ [][ProjectPathKept]_vars
  /\ [](\A i, j \in RunIds :
          (FailedLate(i) /\ Follows(j, i) /\ "createDir" \notin Range(runs[j].trace)) =>
            /\ IsDir(fs, runs[i].projectPath)
            /\ Children(fs, runs[i].projectPath) = {} => runs[i].caught.from = "copy")
  /\ [][\A i, j \in RunIds :
          (FailedLate(i) /\ Follows(j, i) /\ runs[j].pc = "createDir"
             /\ runs'[j].pc # "createDir") =>
            IF Children(fs, runs[j].projectPath) # {}
            THEN /\ runs'[j].caught = Error(ErrNotEmpty(runs[j].projectPath), "createDir")
                 /\ runs'[j].pc = "catch"
                 /\ fs' = fs
            ELSE runs'[j].caught = NoError /\ runs'[j].pc = "clone"]_vars
  /\ [](\A j \in RunIds :
          runs[j].caught.from = "createDir" =>
            StepsOf(j) = <<"checkNode", "checkGit", "createDir">>)

\* a run failed at the install step, and the run that followed it with the
\* same name has exited on the "not empty" error
C27_Witness ==
  \E i, j \in RunIds :
    /\ FailedLate(i) /\ runs[i].caught.from = "install" /\ Follows(j, i)
    /\ runs[j].pc = "exited" /\ runs[j].exitCode = 1
    /\ runs[j].caught = Error(ErrNotEmpty(runs[j].projectPath), "createDir")

(***************************************************************************)
(* The variant with the bundled template                                   *)
(***************************************************************************)
\* C25: in the bundled variant, when the template directory shipped with
\* the CLI does not exist and the steps before the copy returned, the run
\* fails in acquiring the template, with an error of the acquisition, and
\* exits with a status other than 0.
C25_MissingBundleIsAcquisitionError ==
  (pc \in {"rejected", "exited"} /\ "createDir" \in Range(completed)
     /\ ~existsSync(fs, boilerplateSrc)) =>
    /\ rejection.from = "acquire"
    /\ pc = "exited" => exitCode > 0

(***************************************************************************)
(* The seeding helpers                                                     *)
(***************************************************************************)
\* C26: put is attempted once for every item of the data array, in array
\* order: at any time the attempts are the first items of the array, a
\* failed put is logged and the next item is attempted in the next turn,
\* the helper never ends otherwise than by returning, and when it has
\* returned every item was attempted and generateAndSeed has returned the
\* whole array, whatever puts failed.
C26_EveryItemAttempted ==
  /\ [](seed.pc \in {"called", "loop", "returned"})
  /\ [](seed.pc # "called" =>
          /\ Len(seed.attempts) <= Len(seed.data)
          /\ seed.attempts = SubSeq(seed.data, 1, Len(seed.attempts))
          /\ Len(seed.errors) = Cardinality(seed.failed))
  /\ [](seed.pc = "returned" =>
          /\ seed.attempts = seed.data
          /\ seed.fn = "generateAndSeed" =>
               seed.returned = [defined |-> TRUE, value |-> Generated(seed.raw, seed.post)])
  /\ [][(seed.pc = "loop" /\ Len(seed.attempts) < Len(seed.data)) =>
          /\ seed'.pc = "loop"
          /\ seed'.attempts = Append(seed.attempts, seed.data[Len(seed.attempts) + 1])
          /\ seed'.data = seed.data]_vars

\* generateAndSeed has returned a filtered array of two items after the
\* first of the two puts failed
C26_Witness ==
  /\ seed.fn = "generateAndSeed" /\ seed.pc = "returned"
  /\ seed.post = "filter" /\ seed.raw = <<"a", "b", "a">>
  /\ seed.failed = {1}
  /\ seed.attempts = <<"a", "a">>
  /\ seed.returned.value = <<"a", "a">>

=============================================================================
